---- MODULE Spec2Model ----
(***************************************************************************)
(* Model of the document-structure reconstruction layer of                 *)
(* PaddleOCRFastAPI:                                                       *)
(*   - reconstruct_table (routers/pdf_ocr.py): the geometric table         *)
(*     reconstructor, run as the specification SpecGTR;                    *)
(*   - parse_table_response, parse_html_table, parse_markdown_table        *)
(*     (test_paddleocr_vl_table.py): the multi-format table extractor,     *)
(*     run as the specification SpecMFTE;                                  *)
(*   - the /pdf endpoints and extract_pdf_ocr_data (routers/pdf_ocr.py),   *)
(*     run as the specification SpecPDF;                                   *)
(*   - extract_tables_from_pdf (test_paddleocr_vl_table.py), run as the    *)
(*     specification SpecVL;                                               *)
(*   - get_pdf_ocr (routers/pdf_ocr.py) called by concurrent request       *)
(*     handlers, run as the specification SpecOCR;                         *)
(*   - reconstruct_table called concurrently on separate pages, run as     *)
(*     the specification SpecPAR;                                          *)
(*   - reconstruct_table called on the pairs of an input in every order,   *)
(*     run as the specification SpecPERM.                                  *)
(*                                                                         *)
(* Numbers.  Python computes x_center = (x1 + x2) / 2 in floating point.   *)
(* The model keeps the doubled centre x1 + x2 (fields x_center2 and        *)
(* y_center2), which is exact for integer coordinates, and compares        *)
(* doubled distances with the doubled threshold: |a/2 - b/2| < t is        *)
(* |a - b| < 2t.                                                           *)
(***************************************************************************)
EXTENDS Integers, Sequences, FiniteSets, TLC

VARIABLES
    \* ---- reconstruct_table ----
    texts,            \* argument texts
    boxes,            \* argument boxes
    y_threshold,      \* argument y_threshold
    min_cols,         \* argument min_cols
    gpc,              \* position in reconstruct_table
    items,            \* local items (after items.sort once gpc is past "cluster")
    rows,             \* local rows (each row sorted by x_center)
    regular_rows,     \* local regular_rows
    most_common_cols, \* local most_common_cols
    table_result,     \* the returned dict
    \* ---- parse_table_response and the parsers it shares ----
    call,             \* the function that was called
    response,         \* its argument (response / html_content / md_content)
    mpc,              \* position in the called function
    work,             \* parse_table_response's local response, as reassigned
    exit_at,          \* the return statement that was taken
    parsed,           \* the returned value
    \* ---- the /pdf endpoints (predict_pdf_by_url, predict_pdf_by_file) ----
    endpoint,         \* the endpoint that was requested
    request,          \* what the request meets: the document and the failures
    ppc,              \* position in the endpoint
    files,            \* the temporary files that exist
    image_files,      \* local image_files (not bound until it is assigned)
    page_idx,         \* the pages the loop has gone through
    all_results,      \* local all_results
    page_outcome,     \* how the last call of extract_pdf_ocr_data ended
    http,             \* the response
    \* ---- extract_tables_from_pdf ----
    pdf_path,         \* what the path leads to: the document and the failures
    vpc,              \* position in extract_tables_from_pdf
    page_index,       \* the pages the loop has gone through
    tables_result,    \* local tables_result
    page_tables,      \* local page_tables of the last page
    vl_table_data,    \* what table_data the last page's item gave, and from where
    extracted,        \* the returned dict
    \* ---- get_pdf_ocr and the request handlers that call it ----
    pdf_ocr,          \* the module global _pdf_ocr
    constructed,      \* the PaddleOCR instances constructed so far
    handler,          \* the endpoint each request handler runs
    hpc,              \* position of each request handler
    ocr,              \* local ocr of each request handler
    running,          \* the handler that holds the event loop, 0 for none
    \* ---- concurrent calls of reconstruct_table ----
    frames,           \* the frame of each call: its arguments and its locals
    \* ---- reconstruct_table on re-ordered pairs ----
    base,             \* an input
    sigma,            \* the order its pairs are supplied in
    cpc,              \* position of the call on the re-ordered input
    reordered_result  \* what the call on the re-ordered input returned

gtrVars == <<texts, boxes, y_threshold, min_cols, gpc, items, rows,
             regular_rows, most_common_cols, table_result>>

mfteVars == <<call, response, mpc, work, exit_at, parsed>>

pdfVars == <<endpoint, request, ppc, files, image_files, page_idx,
             all_results, page_outcome, http>>

vlVars == <<pdf_path, vpc, page_index, tables_result, page_tables,
            vl_table_data, extracted>>

ocrVars == <<pdf_ocr, constructed, handler, hpc, ocr, running>>

permVars == <<base, sigma, cpc, reordered_result>>

vars == <<gtrVars, mfteVars, pdfVars, vlVars, ocrVars, frames, permVars>>

\* what the steps of one function leave alone
gtrRest == <<mfteVars, pdfVars, vlVars, ocrVars, frames,
            permVars>>
mfteRest == <<gtrVars, pdfVars, vlVars, ocrVars, frames,
            permVars>>
pdfRest == <<gtrVars, mfteVars, vlVars, ocrVars, frames,
            permVars>>
vlRest == <<gtrVars, mfteVars, pdfVars, ocrVars, frames,
            permVars>>
ocrRest == <<gtrVars, mfteVars, pdfVars, vlVars, frames,
            permVars>>
parRest == <<gtrVars, mfteVars, pdfVars, vlVars, ocrVars, permVars>>
permRest == <<gtrVars, mfteVars, pdfVars, vlVars, ocrVars, frames>>

----------------------------------------------------------------------------
(* Generic helpers *)

Abs(n) == IF n < 0 THEN -n ELSE n

Range(s) == {s[i] : i \in DOMAIN s}

\* list.sort(key=...) is stable: an element goes after every element whose
\* key is <= its own.
InsertStable(s, e, key) ==
    LET p == Cardinality({j \in DOMAIN s : s[j][key] <= e[key]})
    IN  SubSeq(s, 1, p) \o <<e>> \o SubSeq(s, p + 1, Len(s))

RECURSIVE StableSort(_, _)
StableSort(s, key) ==
    IF s = <<>> THEN <<>>
    ELSE InsertStable(StableSort(SubSeq(s, 1, Len(s) - 1), key), s[Len(s)], key)

----------------------------------------------------------------------------
(* reconstruct_table: constants and inputs *)

DefaultYThreshold == 30
DefaultMinCols == 3
MinTextBoxes == 6

\* Bound: the longest texts/boxes list of the exhaustive input family.
MaxItems == 6

\* y1 of the boxes of the input family; every box is 40 wide and 20 high,
\* so the y centres are 10, 20, 45, 70: 20 is within 30 of 10, 45 is not,
\* though 45 is within 30 of 20.
YLevels == <<0, 10, 35, 60>>

Labels == <<"Name", "Age", "City", "John", "25", "NYC", "t7", "t8", "t9",
            "t10", "t11", "t12", "t13", "t14", "t15", "t16">>

TextsOf(n) == [i \in 1..n |-> Labels[i]]

\* A box as the engine hands it over: a Python list or another sequence
\* type (tuple), with its elements.
ListBox(x1, y1, x2, y2) == [isList |-> TRUE, c |-> <<x1, y1, x2, y2>>]
TupleBox(x1, y1, x2, y2) == [isList |-> FALSE, c |-> <<x1, y1, x2, y2>>]
ShortBox(x1, y1) == [isList |-> TRUE, c |-> <<x1, y1>>]

XAt(layout, i, n) ==
    CASE layout = "grid" -> 10 + 50 * ((i - 1) % 3)
      [] layout = "desc" -> 10 + 50 * (n - i)
      [] OTHER           -> 10

BoxAt(cfg, levels, i) ==
    LET x1 == XAt(cfg.layout, i, Len(levels))
        y1 == YLevels[levels[i]]
    IN  IF i = 2 /\ cfg.bad = "short" THEN ShortBox(x1, y1)
        ELSE IF i = 2 /\ cfg.bad = "tuple" THEN TupleBox(x1, y1, x1 + 40, y1 + 20)
        ELSE ListBox(x1, y1, x1 + 40, y1 + 20)

GtrConfigs ==
    { [y_threshold |-> DefaultYThreshold, min_cols |-> DefaultMinCols,
       layout |-> "grid", bad |-> "none", dT |-> 0],
      [y_threshold |-> DefaultYThreshold, min_cols |-> 2,
       layout |-> "desc", bad |-> "none", dT |-> 0],
      [y_threshold |-> 10, min_cols |-> 1,
       layout |-> "grid", bad |-> "none", dT |-> 0],
      [y_threshold |-> 10, min_cols |-> 2,
       layout |-> "desc", bad |-> "none", dT |-> 0],
      [y_threshold |-> 10, min_cols |-> 1,
       layout |-> "desc", bad |-> "short", dT |-> 0],
      [y_threshold |-> DefaultYThreshold, min_cols |-> DefaultMinCols,
       layout |-> "grid", bad |-> "none", dT |-> 1],
      [y_threshold |-> DefaultYThreshold, min_cols |-> DefaultMinCols,
       layout |-> "grid", bad |-> "none", dT |-> -1] }

LevelSeqs == UNION {[1..n -> DOMAIN YLevels] : n \in 0..MaxItems}

FamilyInput(cfg, levels) ==
    [texts |-> TextsOf(Len(levels) + cfg.dT),
     boxes |-> [i \in 1..Len(levels) |-> BoxAt(cfg, levels, i)],
     y_threshold |-> cfg.y_threshold,
     min_cols |-> cfg.min_cols]

\* Rows of n[r] boxes each, row r at y1 = 40 * (r - 1), columns 50 apart.
GridBoxes(n) ==
    LET RECURSIVE Build(_)
        Build(r) ==
            IF r > Len(n) THEN <<>>
            ELSE [j \in 1..n[r] |->
                    ListBox(10 + 50 * (j - 1), 40 * (r - 1),
                            50 * j, 40 * (r - 1) + 20)] \o Build(r + 1)
    IN  Build(1)

\* The worked examples of the documentation.
ExampleVoting ==       \* rows of 4, 4, 3, 4 boxes
    [texts |-> TextsOf(15), boxes |-> GridBoxes(<<4, 4, 3, 4>>),
     y_threshold |-> DefaultYThreshold, min_cols |-> DefaultMinCols]

ExampleDocstring ==    \* pdf_ocr.py lines 173-176
    [texts |-> <<"Name", "Age", "John", "25">>,
     boxes |-> <<ListBox(10, 10, 50, 30), ListBox(60, 10, 100, 30),
                 ListBox(10, 40, 50, 60), ListBox(60, 40, 100, 60)>>,
     y_threshold |-> DefaultYThreshold, min_cols |-> DefaultMinCols]

\* boxes of 7 pairs: a 2 x 3 grid with a two-element box after the third
BoxesWithShort ==
    SubSeq(GridBoxes(<<3, 3>>), 1, 3) \o <<ShortBox(10, 20)>>
        \o SubSeq(GridBoxes(<<3, 3>>), 4, 6)

TextsWithShort ==
    <<"Name", "Age", "City", "junk", "John", "25", "NYC">>

\* the same box as another sequence type
AsTuple(box) == [isList |-> FALSE, c |-> box.c]

\* Inputs of the size the 6-box floor asks for: a 2 x 3 grid with every box
\* a tuple, and a 2 x 3 grid with one more pair whose box is too short.
ExampleTupleBoxes ==
    [texts |-> TextsOf(6),
     boxes |-> [i \in 1..6 |-> AsTuple(GridBoxes(<<3, 3>>)[i])],
     y_threshold |-> DefaultYThreshold, min_cols |-> DefaultMinCols]

ExampleShortBox ==
    [texts |-> TextsWithShort, boxes |-> BoxesWithShort,
     y_threshold |-> DefaultYThreshold, min_cols |-> DefaultMinCols]

GtrInputs ==
    {FamilyInput(cfg, levels) : cfg \in GtrConfigs, levels \in LevelSeqs}
        \cup {ExampleVoting, ExampleDocstring, ExampleTupleBoxes,
              ExampleShortBox}

----------------------------------------------------------------------------
(* reconstruct_table: the algorithm *)

NoTable == [has_table |-> FALSE, headers |-> <<>>, rows |-> <<>>]

Pending == [pending |-> TRUE]

\* lines 185-190
BasicValidationFailsAlt(t, b) ==
    \/ Len(t) = 0
    \/ Len(b) = 0
    \/ Len(t) < MinTextBoxes

BasicValidationFails(t, b) ==
    \/ Len(t) = 0
    \/ Len(b) = 0
    \/ Len(t) # Len(b)
    \/ Len(t) < MinTextBoxes

\* line 195
IsValidBox(box) == box.isList /\ Len(box.c) >= 4

\* lines 196-205
MakeItem(i, text, box) ==
    [text |-> text,
     x1 |-> box.c[1], y1 |-> box.c[2], x2 |-> box.c[3], y2 |-> box.c[4],
     x_center2 |-> box.c[1] + box.c[3],
     y_center2 |-> box.c[2] + box.c[4],
     width |-> box.c[3] - box.c[1],
     height |-> box.c[4] - box.c[2],
     index |-> i - 1]

\* lines 193-205: one item per (text, box) pair with a valid box
RECURSIVE BuildItemsFrom(_, _, _)
BuildItemsFrom(t, b, i) ==
    IF i > Len(t) \/ i > Len(b) THEN <<>>
    ELSE (IF IsValidBox(b[i]) THEN <<MakeItem(i, t[i], b[i])>> ELSE <<>>)
            \o BuildItemsFrom(t, b, i + 1)

BuildItems(t, b) == BuildItemsFrom(t, b, 1)

\* line 220
SameRowAlt(item, current_row, yt) ==
    Abs(item.y_center2 - current_row[Len(current_row)].y_center2) < 2 * yt

SameRow(item, current_row, yt) ==
    Abs(item.y_center2 - current_row[1].y_center2) < 2 * yt

\* lines 218-226: the walk over items[1:]
RECURSIVE WalkItems(_, _, _, _, _)
WalkItems(its, k, current_row, acc, yt) ==
    IF k > Len(its)
    THEN \* lines 229-231
         acc \o <<StableSort(current_row, "x_center2")>>
    ELSE IF SameRow(its[k], current_row, yt)
         THEN WalkItems(its, k + 1, Append(current_row, its[k]), acc, yt)
         ELSE WalkItems(its, k + 1, <<its[k]>>,
                        acc \o <<StableSort(current_row, "x_center2")>>, yt)

\* lines 214-231, on the sorted items
ClusterRows(its, yt) == WalkItems(its, 2, <<its[1]>>, <<>>, yt)

\* line 238
ColCounts(rs) == [r \in DOMAIN rs |-> Len(rs[r])]

\* line 247
ValidColCounts(rs, mc) == SelectSeq(ColCounts(rs), LAMBDA c : c >= mc)

\* lines 253-254: Counter(...).most_common(1)[0][0].  The Counter keeps its
\* keys in first-insertion order and most_common(1) is max() over them by
\* count, which returns the first of the maximal keys.
Freq(counts, c) == Cardinality({i \in DOMAIN counts : counts[i] = c})

MostCommonAlt(counts) ==
    LET best == CHOOSE i \in DOMAIN counts :
                    /\ \A j \in DOMAIN counts :
                          Freq(counts, counts[j]) <= Freq(counts, counts[i])
                    /\ \A j \in DOMAIN counts :
                          Freq(counts, counts[j]) = Freq(counts, counts[i])
                              => counts[j] <= counts[i]
    IN  counts[best]

MostCommon(counts) ==
    LET best == CHOOSE i \in DOMAIN counts :
                    /\ \A j \in DOMAIN counts :
                          Freq(counts, counts[j]) <= Freq(counts, counts[i])
                    /\ \A j \in 1..(i - 1) :
                          Freq(counts, counts[j]) < Freq(counts, counts[i])
    IN  counts[best]

\* line 257
RegularRows(rs, mcc) == SelectSeq(rs, LAMBDA row : Len(row) = mcc)

\* lines 264, 269
RowTexts(row) == [j \in DOMAIN row |-> row[j].text]

\* lines 271-273: pad with '' up to len(headers), then cut to len(headers)
PadOrCut(row_data, n) ==
    [j \in 1..n |-> IF j <= Len(row_data) THEN row_data[j] ELSE ""]

\* line 264
HeadersOfAlt(rrs) == RowTexts(rrs[Len(rrs)])

HeadersOf(rrs) == RowTexts(rrs[1])

\* lines 267-273
DataRowsOf(rrs) ==
    [r \in 1..(Len(rrs) - 1) |->
        PadOrCut(RowTexts(rrs[r + 1]), Len(HeadersOf(rrs)))]

\* lines 280-286
TableDictAlt(headers, data_rows) ==
    [has_table |-> TRUE, headers |-> headers, rows |-> data_rows,
     total_rows |-> Len(headers), total_cols |-> Len(data_rows)]

TableDict(headers, data_rows) ==
    [has_table |-> TRUE, headers |-> headers, rows |-> data_rows,
     total_rows |-> Len(data_rows), total_cols |-> Len(headers)]

\* the same without items.sort of line 212
ReconstructTableAlt(t, b, yt, mc) ==
    IF BasicValidationFails(t, b) THEN NoTable
    ELSE LET its == BuildItems(t, b)
         IN  IF Len(its) < MinTextBoxes THEN NoTable
             ELSE LET rs == ClusterRows(its, yt)
                  IN  IF Len(rs) < 2 \/ ValidColCounts(rs, mc) = <<>> THEN NoTable
                      ELSE LET rrs == RegularRows(rs, MostCommon(ValidColCounts(rs, mc)))
                           IN  IF Len(rrs) < 2 THEN NoTable
                               ELSE TableDict(HeadersOf(rrs), DataRowsOf(rrs))

\* lines 184-286 as one function of the arguments: the value the steps
\* below return
ReconstructTable(t, b, yt, mc) ==
    IF BasicValidationFails(t, b) THEN NoTable
    ELSE LET its == BuildItems(t, b)
         IN  IF Len(its) < MinTextBoxes THEN NoTable
             ELSE LET rs == ClusterRows(StableSort(its, "y_center2"), yt)
                  IN  IF Len(rs) < 2 \/ ValidColCounts(rs, mc) = <<>> THEN NoTable
                      ELSE LET rrs == RegularRows(rs, MostCommon(ValidColCounts(rs, mc)))
                           IN  IF Len(rrs) < 2 THEN NoTable
                               ELSE TableDict(HeadersOf(rrs), DataRowsOf(rrs))

----------------------------------------------------------------------------
(* reconstruct_table: the steps *)

GtrIdle ==
    /\ gpc = "idle"
    /\ texts = <<>> /\ boxes = <<>>
    /\ y_threshold = DefaultYThreshold /\ min_cols = DefaultMinCols
    /\ items = <<>> /\ rows = <<>> /\ regular_rows = <<>>
    /\ most_common_cols = 0
    /\ table_result = Pending

GtrInit ==
    \E inp \in GtrInputs :
        /\ texts = inp.texts
        /\ boxes = inp.boxes
        /\ y_threshold = inp.y_threshold
        /\ min_cols = inp.min_cols
        /\ gpc = "validate"
        /\ items = <<>> /\ rows = <<>> /\ regular_rows = <<>>
        /\ most_common_cols = 0
        /\ table_result = Pending

GtrReturn(r) ==
    /\ gpc' = "done"
    /\ table_result' = r

\* lines 185-190
GtrValidate ==
    /\ gpc = "validate"
    /\ IF BasicValidationFails(texts, boxes)
       THEN GtrReturn(NoTable)
       ELSE gpc' = "build" /\ UNCHANGED table_result
    /\ UNCHANGED gtrRest
    /\ UNCHANGED <<texts, boxes, y_threshold, min_cols, items, rows,
                   regular_rows, most_common_cols>>

\* lines 193-208
GtrBuildItems ==
    /\ gpc = "build"
    /\ items' = BuildItems(texts, boxes)
    /\ IF Len(items') < MinTextBoxes
       THEN GtrReturn(NoTable)
       ELSE gpc' = "cluster" /\ UNCHANGED table_result
    /\ UNCHANGED gtrRest
    /\ UNCHANGED <<texts, boxes, y_threshold, min_cols, rows,
                   regular_rows, most_common_cols>>

\* lines 212-235
GtrClusterRows ==
    /\ gpc = "cluster"
    /\ items' = StableSort(items, "y_center2")
    /\ rows' = ClusterRows(items', y_threshold)
    /\ IF Len(rows') < 2
       THEN GtrReturn(NoTable)
       ELSE gpc' = "vote" /\ UNCHANGED table_result
    /\ UNCHANGED gtrRest
    /\ UNCHANGED <<texts, boxes, y_threshold, min_cols,
                   regular_rows, most_common_cols>>

\* lines 238-260.  max(col_counts) < min_cols (line 242) is the same test as
\* "no count is >= min_cols" (line 249).
GtrVoteColumns ==
    /\ gpc = "vote"
    /\ LET valid_col_counts == ValidColCounts(rows, min_cols)
       IN  IF valid_col_counts = <<>>
           THEN /\ GtrReturn(NoTable)
                /\ UNCHANGED <<regular_rows, most_common_cols>>
           ELSE /\ most_common_cols' = MostCommon(valid_col_counts)
                /\ regular_rows' = RegularRows(rows, most_common_cols')
                /\ IF Len(regular_rows') < 2
                   THEN GtrReturn(NoTable)
                   ELSE gpc' = "extract" /\ UNCHANGED table_result
    /\ UNCHANGED gtrRest
    /\ UNCHANGED <<texts, boxes, y_threshold, min_cols, items, rows>>

\* lines 262-286
GtrExtract ==
    /\ gpc = "extract"
    /\ LET headers == HeadersOf(regular_rows)
           data_rows == DataRowsOf(regular_rows)
       IN  IF Len(data_rows) < 1
           THEN GtrReturn(NoTable)
           ELSE GtrReturn(TableDict(headers, data_rows))
    /\ UNCHANGED gtrRest
    /\ UNCHANGED <<texts, boxes, y_threshold, min_cols, items, rows,
                   regular_rows, most_common_cols>>

GtrNext ==
    \/ GtrValidate
    \/ GtrBuildItems
    \/ GtrClusterRows
    \/ GtrVoteColumns
    \/ GtrExtract

----------------------------------------------------------------------------
(* Text.  A string is modelled as the sequence of its lexemes.  Every       *)
(* lexeme is spelled as in the text, except                                 *)
(*   FENCE  three backquotes,                                               *)
(*   MARK   the three-character no-table marker of                          *)
(*          test_paddleocr_vl_table.py line 214.                            *)
(* The lexemes are chosen so that every substring the code looks for        *)
(* ("{", "}", "[", "]", "|", "---", "<table", "</table>", a fence, a        *)
(* newline, the marker) lies inside one lexeme and never straddles two;     *)
(* ":-" and "-:" can straddle two lexemes and are looked for across the     *)
(* boundary (HasColonDash, HasDashColon).                                   *)

FENCE == "FENCE"
MARK == "MARK"
NL == "\n"
SP == " "

FenceTags == {"json", "html", "markdown", "JSON"}
TableOpenTags == {"<table>", "<TABLE>"}
KeyTokens == {"\"headers\":", "\"rows\":", "\"note\":", "\"data\":"}
StrTokens == {"\"A\"", "\"B\"", "\"1\"", "\"2\""}
ThTokens == {"<th>A</th>", "<th>B</th>"}
TdTokens == {"<td>1</td>", "<td>2</td>",
             "<td>Name</td>", "<td>Age</td>", "<td>John</td>", "<td>25</td>"}

KeyName(t) ==
    CASE t = "\"headers\":" -> "headers"
      [] t = "\"rows\":"    -> "rows"
      [] t = "\"data\":"    -> "data"
      [] OTHER              -> "note"

\* tag.get_text(strip=True)
CellText(t) ==
    CASE t \in {"<th>A</th>"} -> "A"
      [] t \in {"<th>B</th>"} -> "B"
      [] t \in {"<td>1</td>"} -> "1"
      [] t \in {"<td>Name</td>"} -> "Name"
      [] t \in {"<td>Age</td>"} -> "Age"
      [] t \in {"<td>John</td>"} -> "John"
      [] t \in {"<td>25</td>"} -> "25"
      [] OTHER                -> "2"

IsSpace(t) == t \in {SP, NL}

MinOf(S) == CHOOSE x \in S : \A y \in S : x <= y
MaxOf(S) == CHOOSE x \in S : \A y \in S : x >= y

\* str.strip()
RECURSIVE LStrip(_)
LStrip(s) == IF s # <<>> /\ IsSpace(Head(s)) THEN LStrip(Tail(s)) ELSE s

RECURSIVE RStrip(_)
RStrip(s) ==
    IF s # <<>> /\ IsSpace(s[Len(s)]) THEN RStrip(SubSeq(s, 1, Len(s) - 1)) ELSE s

Strip(s) == RStrip(LStrip(s))

\* needle in s, for a needle that is one lexeme
Contains(s, t) == \E i \in DOMAIN s : s[i] = t

\* str.find / str.rfind of a one-lexeme needle that occurs
RECURSIVE FindFrom(_, _, _)
FindFrom(s, t, i) == IF s[i] = t THEN i ELSE FindFrom(s, t, i + 1)

RECURSIVE RFindFrom(_, _, _)
RFindFrom(s, t, i) == IF s[i] = t THEN i ELSE RFindFrom(s, t, i - 1)

FindTok(s, t) == FindFrom(s, t, 1)
RFindTok(s, t) == RFindFrom(s, t, Len(s))

\* "<table" in s.lower()
HasTableOpen(s) == \E i \in DOMAIN s : s[i] \in TableOpenTags

RECURSIVE Concat(_)
Concat(s) == IF s = <<>> THEN "" ELSE Head(s) \o Concat(Tail(s))

----------------------------------------------------------------------------
(* parse_table_response, lines 214-220: the guard and the fenced blocks *)

\* line 214
NoTableAnswerAlt(s) == Contains(s, MARK)

NoTableAnswer(s) ==
    Contains(s, MARK) /\ ~Contains(s, "|") /\ ~HasTableOpen(s)

\* line 218, the opening of the pattern at p: the fence, an optional tag,
\* a newline.  The number of lexemes it takes, 0 when it does not match.
OpenerLen(s, p) ==
    IF s[p] # FENCE THEN 0
    ELSE IF p + 1 <= Len(s) /\ s[p + 1] = NL THEN 2
    ELSE IF p + 2 <= Len(s) /\ s[p + 1] \in FenceTags /\ s[p + 2] = NL THEN 3
    ELSE 0

\* line 218, the end of the pattern at q: a newline and the fence
CloserAt(s, q) == q + 1 <= Len(s) /\ s[q] = NL /\ s[q + 1] = FENCE

ClosersFrom(s, c) == {q \in c..Len(s) : CloserAt(s, q)}

\* line 218: re.findall, the interiors of the non-overlapping matches from
\* left to right, each interior ending at the first closer (lazy match)
RECURSIVE FindAllFrom(_, _)
FindAllFrom(s, p) ==
    IF p > Len(s) THEN <<>>
    ELSE LET k == OpenerLen(s, p)
         IN  IF k > 0 /\ ClosersFrom(s, p + k) # {}
             THEN LET q == MinOf(ClosersFrom(s, p + k))
                  IN  <<SubSeq(s, p + k, q - 1)>> \o FindAllFrom(s, q + 2)
             ELSE FindAllFrom(s, p + 1)

FencedBlocks(s) == FindAllFrom(s, 1)

\* lines 219-220
AfterFenceAlt(s) ==
    IF FencedBlocks(s) # <<>>
    THEN Strip(FencedBlocks(s)[Len(FencedBlocks(s))])
    ELSE s

AfterFence(s) ==
    IF FencedBlocks(s) # <<>> THEN Strip(FencedBlocks(s)[1]) ELSE s

----------------------------------------------------------------------------
(* json.loads on the lexemes.  A value is a record [k, s, items]:          *)
(*   a string  [k |-> "str",  s |-> its lexeme, items |-> <<>>]             *)
(*   a list    [k |-> "list", s |-> "", items |-> its elements]             *)
(*   a dict    [k |-> "dict", s |-> "", items |-> its entries], an entry    *)
(*             being [k |-> "entry", s |-> the key, items |-> <<value>>].   *)
(* Strings are the only scalars of the modelled texts.                      *)

JStr(t) == [k |-> "str", s |-> t, items |-> <<>>]
JList(xs) == [k |-> "list", s |-> "", items |-> xs]
JDict(es) == [k |-> "dict", s |-> "", items |-> es]
JEntry(key, v) == [k |-> "entry", s |-> key, items |-> <<v>>]

JFail == [ok |-> FALSE, val |-> JStr(""), next |-> 0]
JOk(v, n) == [ok |-> TRUE, val |-> v, next |-> n]

RECURSIVE SkipWs(_, _)
SkipWs(s, i) ==
    IF i <= Len(s) /\ IsSpace(s[i]) THEN SkipWs(s, i + 1) ELSE i

RECURSIVE ParseValue(_, _)
RECURSIVE ParseElems(_, _, _)
RECURSIVE ParseMembers(_, _, _)

ParseValue(s, i0) ==
    LET i == SkipWs(s, i0)
    IN  IF i > Len(s) THEN JFail
        ELSE IF s[i] \in StrTokens THEN JOk(JStr(s[i]), i + 1)
        ELSE IF s[i] = "["
             THEN LET j == SkipWs(s, i + 1)
                  IN  IF j <= Len(s) /\ s[j] = "]"
                      THEN JOk(JList(<<>>), j + 1)
                      ELSE ParseElems(s, i + 1, <<>>)
        ELSE IF s[i] = "{"
             THEN LET j == SkipWs(s, i + 1)
                  IN  IF j <= Len(s) /\ s[j] = "}"
                      THEN JOk(JDict(<<>>), j + 1)
                      ELSE ParseMembers(s, i + 1, <<>>)
        ELSE JFail

ParseElems(s, i, acc) ==
    LET r == ParseValue(s, i)
    IN  IF ~r.ok THEN JFail
        ELSE LET j == SkipWs(s, r.next)
             IN  IF j > Len(s) THEN JFail
                 ELSE IF s[j] = "," THEN ParseElems(s, j + 1, Append(acc, r.val))
                 ELSE IF s[j] = "]" THEN JOk(JList(Append(acc, r.val)), j + 1)
                 ELSE JFail

ParseMembers(s, i0, acc) ==
    LET i == SkipWs(s, i0)
    IN  IF i > Len(s) \/ s[i] \notin KeyTokens THEN JFail
        ELSE LET r == ParseValue(s, i + 1)
             IN  IF ~r.ok THEN JFail
                 ELSE LET j == SkipWs(s, r.next)
                          e == JEntry(KeyName(s[i]), r.val)
                      IN  IF j > Len(s) THEN JFail
                          ELSE IF s[j] = ","
                               THEN ParseMembers(s, j + 1, Append(acc, e))
                          ELSE IF s[j] = "}"
                               THEN JOk(JDict(Append(acc, e)), j + 1)
                          ELSE JFail

\* json.loads: one value, then nothing but whitespace; anything else is a
\* JSONDecodeError (ok = FALSE)
JsonLoads(s) ==
    LET r == ParseValue(s, 1)
    IN  IF r.ok /\ SkipWs(s, r.next) > Len(s) THEN r ELSE JFail

HasKey(v, key) == v.k = "dict" /\ \E i \in DOMAIN v.items : v.items[i].s = key

\* d[key]: the last entry of that key
Lookup(v, key) ==
    v.items[MaxOf({i \in DOMAIN v.items : v.items[i].s = key})].items[1]

\* lines 223-227: the text from the first "{" to the last "}", else from the
\* first "[" to the last "]"; <<>> stands for None and for the empty string
JsonCandidate(s) ==
    IF Contains(s, "{") /\ Contains(s, "}")
    THEN SubSeq(s, FindTok(s, "{"), RFindTok(s, "}"))
    ELSE IF Contains(s, "[") /\ Contains(s, "]")
    THEN SubSeq(s, FindTok(s, "["), RFindTok(s, "]"))
    ELSE <<>>

----------------------------------------------------------------------------
(* Returned values of the parsers *)

None == [shape |-> "none"]

\* a dict returned by json.loads (line 232)
JsonDict(v) == [shape |-> "json", val |-> v]

\* line 234
DataWrapper(v) == [shape |-> "data", val |-> v]

\* lines 202-207 and 278-283
TableOut(headers, rws) ==
    [shape |-> "table", headers |-> headers, rows |-> rws,
     total_rows |-> Len(rws), total_cols |-> Len(headers)]

\* lines 228-236: the value returned by the JSON branch, None when the
\* branch falls through
JsonBranchAlt(s) ==
    LET cand == JsonCandidate(s)
        r == JsonLoads(cand)
    IN  IF HasTableOpen(s) \/ cand = <<>> \/ ~r.ok THEN None
        ELSE IF r.val.k = "dict" THEN JsonDict(r.val)
        ELSE DataWrapper(r.val)

JsonBranch(s) ==
    LET cand == JsonCandidate(s)
        r == JsonLoads(cand)
    IN  IF cand = <<>> \/ ~r.ok THEN None
        ELSE IF r.val.k = "dict" THEN JsonDict(r.val)
        ELSE DataWrapper(r.val)

----------------------------------------------------------------------------
(* parse_html_table (test_paddleocr_vl_table.py) and parse_html_to_json    *)
(* (test_ppstructure.py).  In the modelled texts every <tr> is closed by    *)
(* its </tr> and rows are not nested, so the rows BeautifulSoup finds are   *)
(* the stretches from a <tr> to the next </tr>.                             *)

\* lines 240-241: the first <table ... </table> stretch, else the whole text
HtmlBlock(s) ==
    LET o == MinOf({i \in DOMAIN s : s[i] \in TableOpenTags})
        closes == {q \in (o + 1)..Len(s) : s[q] = "</table>"}
    IN  IF closes = {} THEN s ELSE SubSeq(s, o, MinOf(closes))

\* soup.find_all('tr') with, for each row, tr.find_all('th') and
\* tr.find_all('td') as texts
RECURSIVE HtmlRowsFrom(_, _)
HtmlRowsFrom(s, i) ==
    IF i > Len(s) THEN <<>>
    ELSE IF s[i] # "<tr>" THEN HtmlRowsFrom(s, i + 1)
    ELSE LET ends == {j \in (i + 1)..Len(s) : s[j] = "</tr>"}
             e == IF ends = {} THEN Len(s) + 1 ELSE MinOf(ends)
             inner == SubSeq(s, i + 1, e - 1)
             ths == SelectSeq(inner, LAMBDA t : t \in ThTokens)
             tds == SelectSeq(inner, LAMBDA t : t \in TdTokens)
         IN  <<[th |-> [j \in DOMAIN ths |-> CellText(ths[j])],
                td |-> [j \in DOMAIN tds |-> CellText(tds[j])]]>>
                 \o HtmlRowsFrom(s, e + 1)

HtmlRows(s) == HtmlRowsFrom(s, 1)

\* test_paddleocr_vl_table.py lines 260-272, from row k on
RECURSIVE HtmlTableLoop(_, _, _, _)
HtmlTableLoop(trs, k, headers, rws) ==
    IF k > Len(trs) THEN [headers |-> headers, rows |-> rws]
    ELSE IF trs[k].th # <<>>
         THEN IF headers = <<>>
              THEN HtmlTableLoop(trs, k + 1, trs[k].th, rws)
              ELSE HtmlTableLoop(trs, k + 1, headers, Append(rws, trs[k].th))
    ELSE IF trs[k].td # <<>>
         THEN HtmlTableLoop(trs, k + 1, headers, Append(rws, trs[k].td))
    ELSE HtmlTableLoop(trs, k + 1, headers, rws)

\* lines 275-276 (and test_ppstructure.py lines 91-92)
PromoteFirstRowAlt(hr) == hr

PromoteFirstRow(hr) ==
    IF hr.headers = <<>> /\ hr.rows # <<>>
    THEN [headers |-> Head(hr.rows), rows |-> Tail(hr.rows)]
    ELSE hr

\* test_paddleocr_vl_table.py lines 250-283
ParseHtmlTable(s) ==
    IF s = <<>> THEN None
    ELSE LET hr == PromoteFirstRow(HtmlTableLoop(HtmlRows(s), 1, <<>>, <<>>))
         IN  TableOut(hr.headers, hr.rows)

\* test_ppstructure.py lines 73-88, from row k on
RECURSIVE HtmlJsonLoop(_, _, _, _)
HtmlJsonLoop(trs, k, headers, rws) ==
    IF k > Len(trs) THEN [headers |-> headers, rows |-> rws]
    ELSE IF trs[k].th # <<>>
         THEN HtmlJsonLoop(trs, k + 1, trs[k].th, rws)
    ELSE IF trs[k].td # <<>>
         THEN HtmlJsonLoop(trs, k + 1, headers, Append(rws, trs[k].td))
    ELSE HtmlJsonLoop(trs, k + 1, headers, rws)

\* test_ppstructure.py lines 56-103
ParseHtmlToJson(s) ==
    IF Strip(s) = <<>> THEN None
    ELSE IF HtmlRows(s) = <<>> THEN None
    ELSE LET hr == PromoteFirstRow(HtmlJsonLoop(HtmlRows(s), 1, <<>>, <<>>))
         IN  IF hr.headers = <<>> /\ hr.rows = <<>> THEN None
             ELSE TableOut(hr.headers, hr.rows)

----------------------------------------------------------------------------
(* parse_markdown_table, test_paddleocr_vl_table.py lines 184-207 *)

\* str.splitlines()
RECURSIVE SplitLines(_)
SplitLines(s) ==
    IF s = <<>> THEN <<>>
    ELSE IF ~Contains(s, NL) THEN <<s>>
    ELSE <<SubSeq(s, 1, FindTok(s, NL) - 1)>>
            \o SplitLines(SubSeq(s, FindTok(s, NL) + 1, Len(s)))

\* line 185
MdLines(s) ==
    SelectSeq([i \in DOMAIN SplitLines(s) |-> Strip(SplitLines(s)[i])],
              LAMBDA l : l # <<>>)

EndsWithColon(t) == t \in KeyTokens \/ t = "-:"
StartsWithColon(t) == t = ":-"
EndsWithDash(t) == t \in {"---", ":-"}
StartsWithDash(t) == t \in {"---", "-:"}

HasColonDash(l) ==
    \/ Contains(l, ":-")
    \/ \E i \in 1..(Len(l) - 1) : EndsWithColon(l[i]) /\ StartsWithDash(l[i + 1])

HasDashColon(l) ==
    \/ Contains(l, "-:")
    \/ \E i \in 1..(Len(l) - 1) : EndsWithDash(l[i]) /\ StartsWithColon(l[i + 1])

\* line 191
IsSeparatorLine(l) ==
    Contains(l, "|") /\ (Contains(l, "---") \/ HasColonDash(l) \/ HasDashColon(l))

\* line.strip("|")
RECURSIVE LStripPipes(_)
LStripPipes(l) == IF l # <<>> /\ Head(l) = "|" THEN LStripPipes(Tail(l)) ELSE l

RECURSIVE RStripPipes(_)
RStripPipes(l) ==
    IF l # <<>> /\ l[Len(l)] = "|"
    THEN RStripPipes(SubSeq(l, 1, Len(l) - 1))
    ELSE l

StripPipes(l) == RStripPipes(LStripPipes(l))

\* str.split("|"): ''.split('|') is ['']
RECURSIVE SplitPipes(_)
SplitPipes(l) ==
    IF ~Contains(l, "|") THEN <<l>>
    ELSE <<SubSeq(l, 1, FindTok(l, "|") - 1)>>
            \o SplitPipes(SubSeq(l, FindTok(l, "|") + 1, Len(l)))

\* lines 196 and 201: [c.strip() for c in line.strip("|").split("|")]
MdCells(l) ==
    LET cells == SplitPipes(StripPipes(l))
    IN  [i \in DOMAIN cells |-> Concat(Strip(cells[i]))]

\* lines 198-201
MdRowsAlt(ls) == [i \in DOMAIN ls |-> MdCells(ls[i])]

MdRows(ls) ==
    LET withPipe == SelectSeq(ls, LAMBDA l : Contains(l, "|"))
    IN  [i \in DOMAIN withPipe |-> MdCells(withPipe[i])]

ParseMarkdownTable(s) ==
    LET lines == MdLines(s)
        seps == {i \in DOMAIN lines : IsSeparatorLine(lines[i])}
    IN  IF Len(lines) < 2 THEN None
        ELSE IF seps = {} \/ MinOf(seps) = 1 THEN None
        ELSE LET sep_idx == MinOf(seps)
             IN  TableOut(MdCells(lines[sep_idx - 1]),
                          MdRows(SubSeq(lines, sep_idx + 1, Len(lines))))

----------------------------------------------------------------------------
(* parse_table_response, lines 223-248, as one function of the text they   *)
(* work on                                                                  *)

DispatchChain(s) ==
    LET fromJson == JsonBranch(s)
    IN
    IF fromJson # None THEN fromJson
    ELSE IF HasTableOpen(s) THEN ParseHtmlTable(HtmlBlock(s))
    ELSE IF Contains(s, "|") /\ Contains(s, "---") THEN ParseMarkdownTable(s)
    ELSE None

----------------------------------------------------------------------------
(* The modelled texts: up to MaxSegs segments, joined by newlines *)

\* Bound: the number of segments of a text.
MaxSegs == 3

Fenced(tag, inner) == <<FENCE>> \o tag \o <<NL>> \o inner \o <<NL, FENCE>>

SegObj ==
    <<"{", "\"headers\":", "[", "\"A\"", ",", "\"B\"", "]", ",",
      "\"rows\":", "[", "[", "\"1\"", ",", "\"2\"", "]", "]", "}">>
SegObjNoHeaders == <<"{", "\"note\":", "\"A\"", "}">>
SegArrayOne == <<"[">> \o SegObj \o <<"]">>
SegArrayTwo == <<"[">> \o SegObj \o <<",", SP>> \o SegObj \o <<"]">>
SegArrayEmpty == <<"[", "]">>
SegBadJson == <<"{", "\"headers\":", "}">>
SegRowTh == <<"<tr>", "<th>A</th>", "<th>B</th>", "</tr>">>
SegRowTd == <<"<tr>", "<td>1</td>", "<td>2</td>", "</tr>">>
SegRowEmpty == <<"<tr>", "</tr>">>
SegRowThSecond == <<"<tr>", "<th>B</th>", "<th>A</th>", "</tr>">>
SegRowTdNames == <<"<tr>", "<td>Name</td>", "<td>Age</td>", "</tr>">>
SegRowTdJohn == <<"<tr>", "<td>John</td>", "<td>25</td>", "</tr>">>
SegMdHead == <<"|", SP, "A", SP, "|", SP, "B", SP, "|">>
SegMdSep == <<"|", SP, "---", SP, "|", SP, "---", SP, "|">>
SegMdAlign == <<"|", ":-", "|", "-:", "|">>
SegMdShort == <<"|", SP, "1", SP, "|">>
SegMdRow == <<"|", SP, "1", SP, "|", SP, "2", SP, "|">>
SegHtmlRows == SegRowTh \o <<NL>> \o SegRowTd
SegMdTable == SegMdHead \o <<NL>> \o SegMdSep \o <<NL>> \o SegMdRow
SegFencedObj == Fenced(<<"json">>, SegObj)
SegFencedNote == Fenced(<<>>, <<SP>> \o SegObjNoHeaders \o <<SP>>)

ResponseSegs ==
    { <<"abc">>, <<SP>>, <<MARK>>,
      SegObj, SegArrayOne, SegArrayTwo, SegArrayEmpty, SegBadJson,
      <<"<table>">>, <<"<TABLE>">>, <<"</table>">>, SegHtmlRows,
      SegMdTable, SegMdSep,
      SegFencedObj, SegFencedNote }

HtmlSegs ==
    { <<"abc">>, <<"<table>">>, <<"</table>">>, SegRowTh, SegRowTd, SegRowEmpty,
      SegRowThSecond, SegRowTdNames, SegRowTdJohn }

MarkdownSegs ==
    { <<"abc">>, SegMdHead, SegMdSep, SegMdAlign, SegMdRow, SegMdShort }

RECURSIVE Join(_)
Join(segs) ==
    IF segs = <<>> THEN <<>>
    ELSE IF Len(segs) = 1 THEN segs[1]
    ELSE segs[1] \o <<NL>> \o Join(Tail(segs))

Calls == {"parse_table_response", "parse_html_table", "parse_html_to_json",
          "parse_markdown_table"}

SegsOf(c) ==
    CASE c = "parse_table_response" -> ResponseSegs
      [] c = "parse_markdown_table" -> MarkdownSegs
      [] OTHER                      -> HtmlSegs

----------------------------------------------------------------------------
(* The steps of parse_table_response and the calls of the parsers *)

MfteIdle ==
    /\ call = "none" /\ response = <<>> /\ mpc = "idle"
    /\ work = <<>> /\ exit_at = "none" /\ parsed = None

MfteInit ==
    \E c \in Calls : \E n \in 0..MaxSegs : \E segs \in [1..n -> SegsOf(c)] :
        /\ call = c
        /\ response = Join(segs)
        /\ mpc = IF c = "parse_table_response" THEN "guard" ELSE "call"
        /\ work = <<>>
        /\ exit_at = "none"
        /\ parsed = None

MfteReturn(where, v) ==
    /\ mpc' = "done"
    /\ exit_at' = where
    /\ parsed' = v

\* lines 210-215
PtrGuard ==
    /\ mpc = "guard"
    /\ IF Strip(response) = <<>>
       THEN MfteReturn("empty", None) /\ UNCHANGED work
       ELSE IF NoTableAnswer(Strip(response))
       THEN MfteReturn("marker", None) /\ work' = Strip(response)
       ELSE /\ mpc' = "fence"
            /\ work' = Strip(response)
            /\ UNCHANGED <<exit_at, parsed>>
    /\ UNCHANGED mfteRest
    /\ UNCHANGED <<call, response>>

\* lines 218-220
PtrFence ==
    /\ mpc = "fence"
    /\ work' = AfterFence(work)
    /\ mpc' = "json"
    /\ UNCHANGED mfteRest
    /\ UNCHANGED <<call, response, exit_at, parsed>>

\* lines 223-236
PtrJson ==
    /\ mpc = "json"
    /\ LET fromJson == JsonBranch(work)
       IN  IF fromJson # None
           THEN MfteReturn("json", fromJson)
           ELSE mpc' = "html" /\ UNCHANGED <<exit_at, parsed>>
    /\ UNCHANGED mfteRest
    /\ UNCHANGED <<call, response, work>>

\* lines 239-242
PtrHtml ==
    /\ mpc = "html"
    /\ IF HasTableOpen(work)
       THEN MfteReturn("html", ParseHtmlTable(HtmlBlock(work)))
       ELSE mpc' = "markdown" /\ UNCHANGED <<exit_at, parsed>>
    /\ UNCHANGED mfteRest
    /\ UNCHANGED <<call, response, work>>

\* lines 245-248
PtrMarkdown ==
    /\ mpc = "markdown"
    /\ IF Contains(work, "|") /\ Contains(work, "---")
       THEN MfteReturn("markdown", ParseMarkdownTable(work))
       ELSE MfteReturn("end", None)
    /\ UNCHANGED mfteRest
    /\ UNCHANGED <<call, response, work>>

CallParseHtmlTable ==
    /\ mpc = "call" /\ call = "parse_html_table"
    /\ MfteReturn("parse_html_table", ParseHtmlTable(response))
    /\ UNCHANGED mfteRest
    /\ UNCHANGED <<call, response, work>>

CallParseHtmlToJson ==
    /\ mpc = "call" /\ call = "parse_html_to_json"
    /\ MfteReturn("parse_html_to_json", ParseHtmlToJson(response))
    /\ UNCHANGED mfteRest
    /\ UNCHANGED <<call, response, work>>

CallParseMarkdownTable ==
    /\ mpc = "call" /\ call = "parse_markdown_table"
    /\ MfteReturn("parse_markdown_table", ParseMarkdownTable(response))
    /\ UNCHANGED mfteRest
    /\ UNCHANGED <<call, response, work>>

MfteNext ==
    \/ PtrGuard
    \/ PtrFence
    \/ PtrJson
    \/ PtrHtml
    \/ PtrMarkdown
    \/ CallParseHtmlTable
    \/ CallParseHtmlToJson
    \/ CallParseMarkdownTable

----------------------------------------------------------------------------
(* extract_pdf_ocr_data, pdf_ocr.py lines 289-377.  A Python value that   *)
(* the engine may put under rec_texts / rec_boxes is a record [t, v]: its   *)
(* type and, for a sequence, its elements.                                  *)

PyList(v) == [t |-> "list", v |-> v]
PyTuple(v) == [t |-> "tuple", v |-> v]
PyNdarray(v) == [t |-> "ndarray", v |-> v]
PyNone == [t |-> "none", v |-> <<>>]
PyNumber == [t |-> "number", v |-> <<>>]     \* a number other than 0
PyAbsent == [t |-> "absent", v |-> <<>>]     \* the key is not there

\* how a call ends
Returns(v) == [kind |-> "return", value |-> v, exc |-> ""]
Raises(e) == [kind |-> "raise", value |-> <<>>, exc |-> e]

\* bool(value); an array of more than one element has no truth value
Truthy(pv) ==
    CASE pv.t \in {"list", "tuple", "ndarray"} -> pv.v # <<>>
      [] pv.t = "number"                       -> TRUE
      [] OTHER                                 -> FALSE

\* lines 134-136
NpToList(pv) == IF pv.t = "ndarray" THEN PyList(pv.v) ELSE pv

\* lines 346 and 355
TextsAsList(pv) == IF pv.t \in {"list", "tuple"} THEN pv.v ELSE <<>>

\* dict.get(key, [])
GetOrEmpty(pv) == IF pv.t = "absent" THEN PyList(<<>>) ELSE pv

\* lines 334-356: rec_texts and rec_boxes as they are handed to
\* reconstruct_table, or the exception of "value or []" on an array
ExtractTextsBoxes(result) ==
    IF result.outer # "list" THEN Returns([texts |-> <<>>, boxes |-> PyList(<<>>)])
    ELSE IF result.item = "object"
    THEN IF result.rec_boxes.t = "ndarray" /\ Len(result.rec_boxes.v) > 0
         THEN Raises("ValueError")
         ELSE Returns(
                [texts |-> TextsAsList(IF Truthy(result.rec_texts)
                                       THEN result.rec_texts ELSE PyList(<<>>)),
                 boxes |-> NpToList(IF Truthy(result.rec_boxes)
                                    THEN result.rec_boxes ELSE PyList(<<>>))])
    ELSE IF result.item = "dict"
    THEN Returns([texts |-> TextsAsList(GetOrEmpty(result.rec_texts)),
                  boxes |-> NpToList(GetOrEmpty(result.rec_boxes))])
    ELSE Returns([texts |-> <<>>, boxes |-> PyList(<<>>)])

\* reconstruct_table(rec_texts, rec_boxes) with the default y_threshold and
\* min_cols: line 185 evaluates "not texts", "not boxes" and then
\* len(boxes), which a number does not have
ReconstructCall(t, bpv) ==
    IF t = <<>> \/ ~Truthy(bpv) THEN Returns(NoTable)
    ELSE IF bpv.t \notin {"list", "tuple"} THEN Raises("TypeError")
    ELSE Returns(ReconstructTable(t, bpv.v, DefaultYThreshold, DefaultMinCols))

NoPage == [none |-> TRUE]

\* lines 367-377
PageRecordAlt(page_num, table_data) ==
    [page |-> page_num - 1,
     table |-> [headers |-> table_data.headers, rows |-> table_data.rows]]

PageRecord(page_num, table_data) ==
    [page |-> page_num,
     table |-> [headers |-> table_data.headers, rows |-> table_data.rows]]

\* lines 289-377
ExtractPdfOcrData(result, page_num) ==
    LET tb == ExtractTextsBoxes(result)
    IN  IF tb.kind = "raise" THEN tb
        ELSE LET td == ReconstructCall(tb.value.texts, tb.value.boxes)
             IN  IF td.kind = "raise" THEN td
                 ELSE IF td.value.has_table
                      THEN Returns(PageRecord(page_num, td.value))
                      ELSE Returns(NoPage)

----------------------------------------------------------------------------
(* The pages an engine may hand over *)

\* Bound: the number of pages of a document.
MaxPages == 2

RawResult(outer, item, t, b) ==
    [outer |-> outer, item |-> item, rec_texts |-> t, rec_boxes |-> b]

PageKinds ==
    { \* a 2 x 3 table, boxes as an array
      RawResult("list", "dict", PyList(TextsOf(6)), PyNdarray(GridBoxes(<<3, 3>>))),
      \* a 3 x 3 table on a result object, texts as a tuple
      RawResult("list", "object", PyTuple(TextsOf(9)), PyList(GridBoxes(<<3, 3, 3>>))),
      \* a 2 x 3 table among 7 pairs, one box too short
      RawResult("list", "dict", PyList(TextsWithShort), PyList(BoxesWithShort)),
      \* four texts only
      RawResult("list", "dict", PyList(TextsOf(4)), PyList(GridBoxes(<<2, 2>>))),
      \* an empty result, a result that is no list, an item of another shape
      RawResult("empty", "other", PyAbsent, PyAbsent),
      RawResult("none", "other", PyAbsent, PyAbsent),
      RawResult("list", "other", PyAbsent, PyAbsent),
      \* rec_texts that is no sequence
      RawResult("list", "dict", PyNumber, PyList(GridBoxes(<<3, 3>>))),
      \* rec_boxes that is None, and rec_boxes that is a number
      RawResult("list", "dict", PyList(TextsOf(6)), PyNone),
      RawResult("list", "dict", PyList(TextsOf(6)), PyNumber),
      \* boxes as an array on a result object
      RawResult("list", "object", PyList(TextsOf(6)), PyNdarray(GridBoxes(<<3, 3>>))) }

Documents == UNION {[1..n -> PageKinds] : n \in 0..MaxPages}

\* what can go wrong on the way: nothing, the download or the file name
\* check ("reject"), pdf_to_images on page k ("raster"; k = 0 is
\* fitz.open), get_pdf_ocr ("load"), ocr.predict on page k ("predict")
FailuresOf(n) ==
    {[at |-> "none", k |-> 0], [at |-> "reject", k |-> 0], [at |-> "load", k |-> 0]}
        \cup {[at |-> "raster", k |-> k] : k \in 0..n}
        \cup {[at |-> "predict", k |-> k] : k \in 1..n}

Endpoints == {"predict_pdf_by_url", "predict_pdf_by_file"}

TmpPdf == [kind |-> "pdf", n |-> 0]
TmpImage(k) == [kind |-> "png", n |-> k]

----------------------------------------------------------------------------
(* predict_pdf_by_url (lines 381-507) and predict_pdf_by_file (lines      *)
(* 511-649): the two differ in how the PDF bytes are obtained.              *)

NoResponse == [status |-> 0]

\* a local name before and after its assignment
Unbound == [bound |-> FALSE, list |-> <<>>]
Bound(l) == [bound |-> TRUE, list |-> l]

\* RestfulModel(resultcode=200, message=..., data=all_results); total is the
\* number formatted into the message
Success(results) ==
    [status |-> 200, resultcode |-> 200, total_tables |-> Len(results),
     data |-> results]

HttpError(code) == [status |-> code]

PdfIdle ==
    /\ endpoint = "none" /\ request = [pages |-> <<>>, fail |-> [at |-> "none", k |-> 0]]
    /\ ppc = "idle" /\ files = {} /\ image_files = Unbound
    /\ page_idx = 0 /\ all_results = <<>>
    /\ page_outcome = Returns(NoPage) /\ http = NoResponse

PdfInit ==
    \E e \in Endpoints : \E doc \in Documents : \E f \in FailuresOf(Len(doc)) :
        /\ endpoint = e
        /\ request = [pages |-> doc, fail |-> f]
        /\ ppc = "accept"
        /\ files = {} /\ image_files = Unbound
        /\ page_idx = 0 /\ all_results = <<>>
        /\ page_outcome = Returns(NoPage) /\ http = NoResponse

\* lines 448-461 (by url: the download) and 591-603 (by file: the file
\* name); then the bytes are written to a temporary PDF
PdfAccept ==
    /\ ppc = "accept"
    /\ IF request.fail.at = "reject"
       THEN ppc' = "done" /\ http' = HttpError(400) /\ UNCHANGED files
       ELSE ppc' = "rasterize" /\ files' = files \cup {TmpPdf} /\ UNCHANGED http
    /\ UNCHANGED <<endpoint, request, image_files, page_idx, all_results,
                   page_outcome>>
    /\ UNCHANGED pdfRest

\* lines 465 and 607: pdf_to_images (lines 65-121) writes one image per page
\* and returns the list when every page is written
PdfRasterize ==
    /\ ppc = "rasterize"
    /\ IF request.fail.at = "raster"
       THEN /\ files' = files \cup {TmpImage(k) : k \in 1..request.fail.k - 1}
            /\ ppc' = "except"
            /\ UNCHANGED image_files
       ELSE /\ files' = files \cup {TmpImage(k) : k \in 1..Len(request.pages)}
            /\ image_files' = Bound([k \in 1..Len(request.pages) |->
                                       [page_num |-> k, path |-> TmpImage(k)]])
            /\ ppc' = "get_ocr"
    /\ UNCHANGED <<endpoint, request, page_idx, all_results, page_outcome, http>>
    /\ UNCHANGED pdfRest

\* lines 468 and 610
PdfGetOcr ==
    /\ ppc = "get_ocr"
    /\ ppc' = IF request.fail.at = "load" THEN "except" ELSE "pages"
    /\ UNCHANGED <<endpoint, request, files, image_files, page_idx,
                   all_results, page_outcome, http>>
    /\ UNCHANGED pdfRest

\* lines 472-476 and 614-618: one turn of the loop
PdfPage ==
    /\ ppc = "pages"
    /\ page_idx < Len(image_files.list)
    /\ LET img_info == image_files.list[page_idx + 1]
           out == ExtractPdfOcrData(request.pages[page_idx + 1], img_info.page_num)
       IN  IF request.fail.at = "predict" /\ request.fail.k = page_idx + 1
           THEN ppc' = "except" /\ UNCHANGED <<all_results, page_outcome>>
           ELSE /\ page_outcome' = out
                /\ IF out.kind = "raise"
                   THEN ppc' = "except" /\ UNCHANGED all_results
                   ELSE /\ ppc' = "pages"
                        /\ all_results' = IF out.value # NoPage
                                          THEN Append(all_results, out.value)
                                          ELSE all_results
    /\ page_idx' = page_idx + 1
    /\ UNCHANGED <<endpoint, request, files, image_files, http>>
    /\ UNCHANGED pdfRest

\* lines 479-486 and 621-628
PdfRespond ==
    /\ ppc = "pages"
    /\ page_idx = Len(image_files.list)
    /\ http' = Success(all_results)
    /\ ppc' = "finally"
    /\ UNCHANGED <<endpoint, request, files, image_files, page_idx,
                   all_results, page_outcome>>
    /\ UNCHANGED pdfRest

\* lines 488-492 and 630-634
PdfExceptAlt ==
    /\ ppc = "except"
    /\ http' = HttpError(400)
    /\ ppc' = "finally"
    /\ UNCHANGED <<endpoint, request, files, image_files, page_idx,
                   all_results, page_outcome>>
    /\ UNCHANGED pdfRest

PdfExcept ==
    /\ ppc = "except"
    /\ http' = HttpError(500)
    /\ ppc' = "finally"
    /\ UNCHANGED <<endpoint, request, files, image_files, page_idx,
                   all_results, page_outcome>>
    /\ UNCHANGED pdfRest

\* lines 494-507 and 636-649
PdfFinally ==
    /\ ppc = "finally"
    /\ files' = (IF ~image_files.bound THEN files
                 ELSE files \ {image_files.list[k].path :
                                   k \in DOMAIN image_files.list})
                    \ {TmpPdf}
    /\ ppc' = "done"
    /\ UNCHANGED <<endpoint, request, image_files, page_idx, all_results,
                   page_outcome, http>>
    /\ UNCHANGED pdfRest

PdfNext ==
    \/ PdfAccept
    \/ PdfRasterize
    \/ PdfGetOcr
    \/ PdfPage
    \/ PdfRespond
    \/ PdfExcept
    \/ PdfFinally

----------------------------------------------------------------------------
(* extract_tables_from_pdf (test_paddleocr_vl_table.py, lines 83-182)      *)

\* lines 210-248: parse_table_response as one function of its argument
ParseTableResponse(r) ==
    IF Strip(r) = <<>> THEN None
    ELSE IF NoTableAnswer(Strip(r)) THEN None
    ELSE DispatchChain(AfterFence(Strip(r)))

\* the values engine.predict returns, and the first item of a list
VlStr(s) == [t |-> "str", text |-> s, table_res_list |-> <<>>, keyed |-> FALSE]
VlDict(keyed, tl, s) ==
    [t |-> "dict", text |-> s, table_res_list |-> tl, keyed |-> keyed]
VlResult(item) == [t |-> "list", items |-> <<item>>]
VlNoResult == [t |-> "none", items |-> <<>>]

\* repr of a str inside str(item): a newline is written as backslash n
ReprStr(s) == [i \in DOMAIN s |-> IF s[i] = NL THEN "\\n" ELSE s[i]]

RECURSIVE ReprTableList(_)
ReprTableList(tl) ==
    IF tl = <<>> THEN <<>>
    ELSE <<"{", "'pred_html':", SP, "'">> \o ReprStr(Head(tl).pred_html)
             \o <<"'", "}">>
             \o (IF Len(tl) > 1 THEN <<",", SP>> ELSE <<>>)
             \o ReprTableList(Tail(tl))

\* line 140: str(item) of a dict item
StrOfDict(item) ==
    <<"{">>
        \o (IF item.keyed
            THEN <<"'table_res_list':", SP, "[">>
                     \o ReprTableList(item.table_res_list) \o <<"]", ",", SP>>
            ELSE <<>>)
        \o <<"'text':", SP, "'">> \o ReprStr(item.text) \o <<"'", "}">>

\* truthiness of a value parse_table_response or parse_html_table returned
TableDataTruthy(td) ==
    \/ td.shape \in {"table", "data"}
    \/ td.shape = "json" /\ td.val.items # <<>>

\* isinstance(table_data, dict) and "headers" in table_data
HasHeadersKey(td) ==
    \/ td.shape = "table"
    \/ td.shape = "json" /\ HasKey(td.val, "headers")

\* isinstance(table_data, dict) and "data" in table_data
HasDataKey(td) ==
    \/ td.shape = "data"
    \/ td.shape = "json" /\ HasKey(td.val, "data")

\* the dicts met by "for t in table_data['data']": iterating a str or a
\* dict meets no dict
DataElements(td) ==
    IF td.shape = "data" THEN td.val.items
    ELSE LET d == Lookup(td.val, "data")
         IN  IF d.k = "list" THEN d.items ELSE <<>>

\* lines 127-137
RECURSIVE FromTableResList(_, _)
FromTableResList(pn, tl) ==
    IF tl = <<>> THEN <<>>
    ELSE (IF Head(tl).pred_html # <<>>
          THEN <<[page |-> pn, bbox |-> <<>>,
                  table |-> ParseHtmlTable(Head(tl).pred_html)]>>
          ELSE <<>>)
             \o FromTableResList(pn, Tail(tl))

\* lines 150-155
RECURSIVE FromData(_, _)
FromData(pn, elems) ==
    IF elems = <<>> THEN <<>>
    ELSE (IF Head(elems).k = "dict" /\ HasKey(Head(elems), "headers")
          THEN <<[page |-> pn, table |-> JsonDict(Head(elems))]>>
          ELSE <<>>)
             \o FromData(pn, Tail(elems))

\* lines 142-155: what the dict branch appends for table_data
DictItemTables(pn, td) ==
    IF ~TableDataTruthy(td) THEN <<>>
    ELSE IF HasHeadersKey(td) THEN <<[page |-> pn, table |-> td]>>
    ELSE IF HasDataKey(td) THEN FromData(pn, DataElements(td))
    ELSE <<>>

\* lines 158-164: what the non-dict branch appends for table_data
StrItemTables(pn, td) ==
    IF TableDataTruthy(td) /\ HasHeadersKey(td)
    THEN <<[page |-> pn, table |-> td]>>
    ELSE <<>>

NoTableData == [from |-> "none", value |-> None]
FromResponse(td) == [from |-> "response", value |-> td]

\* lines 119-164: page_tables and table_data after one page
PageTables(pn, result) ==
    IF ~(result.t = "list" /\ result.items # <<>>)
    THEN [page_tables |-> <<>>, table_data |-> NoTableData]
    ELSE LET item == result.items[1]
             fromList == FromTableResList(pn, item.table_res_list)
         IN  IF item.t = "dict"
             THEN IF fromList # <<>>
                  THEN [page_tables |-> fromList,
                        table_data  |->
                            [from  |-> "table_res_list",
                             value |-> fromList[Len(fromList)].table]]
                  ELSE LET td == ParseTableResponse(StrOfDict(item))
                       IN  [page_tables |-> DictItemTables(pn, td),
                            table_data  |-> FromResponse(td)]
             ELSE LET td == ParseTableResponse(item.text)
                  IN  [page_tables |-> StrItemTables(pn, td),
                       table_data  |-> FromResponse(td)]

\* Bound: the number of pages of the document handed to
\* extract_tables_from_pdf.
MaxVlPages == 2

SegDataObj == <<"{", "\"data\":", "[">> \o SegObj \o <<"]", "}">>
SegDataEmpty == <<"{", "\"data\":", "[", "]", "}">>
SegHtmlTable == <<"<table>", NL>> \o SegHtmlRows \o <<NL, "</table>">>

\* what a page meets: pdf_page_to_numpy gives None, engine.predict raises,
\* or engine.predict returns
VlPageKinds ==
    { [img |-> FALSE, raises |-> FALSE, result |-> VlNoResult],
      [img |-> TRUE,  raises |-> TRUE,  result |-> VlNoResult] }
    \cup
    { [img |-> TRUE, raises |-> FALSE, result |-> r] :
        r \in { VlNoResult,
                VlResult(VlStr(SegObj)),
                VlResult(VlStr(SegDataObj)),
                VlResult(VlStr(SegDataEmpty)),
                VlResult(VlStr(SegArrayEmpty)),
                VlResult(VlStr(SegHtmlTable)),
                VlResult(VlStr(<<"abc">>)),
                VlResult(VlDict(FALSE, <<>>, SegObj)),
                VlResult(VlDict(FALSE, <<>>, SegDataObj)),
                VlResult(VlDict(FALSE, <<>>, SegHtmlTable)),
                VlResult(VlDict(TRUE, <<>>, SegHtmlTable)),
                VlResult(VlDict(TRUE, <<[pred_html |-> <<>>]>>, <<"abc">>)),
                VlResult(VlDict(TRUE, <<[pred_html |-> SegHtmlRows]>>,
                                <<"abc">>)),
                VlResult(VlDict(TRUE, <<[pred_html |-> SegHtmlRows],
                                        [pred_html |-> SegRowTdNames]>>,
                                SegObj)) } }

VlDocuments == UNION { [1..n -> VlPageKinds] : n \in 0..MaxVlPages }

NotExtracted == [success |-> FALSE, error |-> "none"]
VlFailure(e) == [success |-> FALSE, error |-> e]
VlSuccess(tables) ==
    [success |-> TRUE, total_tables |-> Len(tables), tables |-> tables]

VlIdle ==
    /\ pdf_path = [exists |-> FALSE, pages |-> <<>>]
    /\ vpc = "idle" /\ page_index = 0 /\ tables_result = <<>>
    /\ page_tables = <<>> /\ vl_table_data = NoTableData
    /\ extracted = NotExtracted

VlInit ==
    \E e \in BOOLEAN : \E d \in VlDocuments :
        /\ pdf_path = [exists |-> e, pages |-> d]
        /\ vpc = "check"
        /\ page_index = 0
        /\ tables_result = <<>>
        /\ page_tables = <<>>
        /\ vl_table_data = NoTableData
        /\ extracted = NotExtracted

\* lines 84-88
VlCheckPath ==
    /\ vpc = "check"
    /\ IF pdf_path.exists
       THEN vpc' = "pages" /\ UNCHANGED extracted
       ELSE vpc' = "done" /\ extracted' = VlFailure("File not found")
    /\ UNCHANGED <<pdf_path, page_index, tables_result, page_tables,
                   vl_table_data>>
    /\ UNCHANGED vlRest

\* lines 106-170: one turn of the loop over the pages
VlPage ==
    /\ vpc = "pages"
    /\ page_index < Len(pdf_path.pages)
    /\ LET p == pdf_path.pages[page_index + 1]
           out == PageTables(page_index + 1, p.result)
       IN  /\ page_index' = page_index + 1
           /\ IF ~p.img
              THEN UNCHANGED <<vpc, tables_result, page_tables, vl_table_data>>
              ELSE IF p.raises
              THEN /\ vpc' = "except"
                   /\ UNCHANGED <<tables_result, page_tables, vl_table_data>>
              ELSE /\ page_tables' = out.page_tables
                   /\ vl_table_data' = out.table_data
                   /\ tables_result' = tables_result \o out.page_tables
                   /\ UNCHANGED vpc
    /\ UNCHANGED <<pdf_path, extracted>>
    /\ UNCHANGED vlRest

\* lines 172-175
VlExcept ==
    /\ vpc = "except"
    /\ vpc' = "done"
    /\ extracted' = VlFailure("exception")
    /\ UNCHANGED <<pdf_path, page_index, tables_result, page_tables,
                   vl_table_data>>
    /\ UNCHANGED vlRest

\* lines 177-182
VlFinish ==
    /\ vpc = "pages"
    /\ page_index = Len(pdf_path.pages)
    /\ vpc' = "done"
    /\ extracted' = VlSuccess(tables_result)
    /\ UNCHANGED <<pdf_path, page_index, tables_result, page_tables,
                   vl_table_data>>
    /\ UNCHANGED vlRest

VlNext ==
    \/ VlCheckPath
    \/ VlPage
    \/ VlExcept
    \/ VlFinish

----------------------------------------------------------------------------
(* get_pdf_ocr (routers/pdf_ocr.py, lines 32-62) and the handlers that     *)
(* call it.  predict_pdf_by_url and predict_pdf_by_file are coroutines     *)
(* ("async def", lines 381 and 511) of one event loop: a handler that has  *)
(* the loop keeps it until it awaits or ends.  predict_pdf_by_file awaits  *)
(* once, file.read() at line 598, before its call of get_pdf_ocr;          *)
(* predict_pdf_by_url and get_pdf_ocr hold no await.                       *)

\* Bound: the number of requests in flight.
MaxHandlers == 3

Handlers == 1..MaxHandlers

\* line 33: _pdf_ocr = None; an instance is named by its rank of construction
NoEngine == 0

\* the handler h may take a step: the event loop is free or h holds it
CanRunAlt(h) == TRUE

CanRun(h) == running \in {0, h}

OcrIdle ==
    /\ pdf_ocr = NoEngine /\ constructed = 0
    /\ handler = [h \in Handlers |-> "none"]
    /\ hpc = [h \in Handlers |-> "off"]
    /\ ocr = [h \in Handlers |-> NoEngine]
    /\ running = 0

\* the module is imported (line 33) and n requests arrive
OcrInit ==
    \E n \in 0..MaxHandlers : \E e \in [1..n -> Endpoints] :
        /\ pdf_ocr = NoEngine
        /\ constructed = 0
        /\ handler = [h \in Handlers |-> IF h <= n THEN e[h] ELSE "none"]
        /\ hpc = [h \in Handlers |-> IF h <= n THEN "request" ELSE "off"]
        /\ ocr = [h \in Handlers |-> NoEngine]
        /\ running = 0

\* lines 448-465 and 591-598: the handler starts; predict_pdf_by_file
\* gives the loop back at "await file.read()"
HandlerStart(h) ==
    /\ hpc[h] = "request"
    /\ CanRun(h)
    /\ IF handler[h] = "predict_pdf_by_file"
       THEN hpc' = [hpc EXCEPT ![h] = "await_read"] /\ running' = 0
       ELSE hpc' = [hpc EXCEPT ![h] = "called"] /\ running' = h
    /\ UNCHANGED <<pdf_ocr, constructed, handler, ocr>>
    /\ UNCHANGED ocrRest

\* lines 598-607: file.read() is done and the handler goes on to its call
HandlerResume(h) ==
    /\ hpc[h] = "await_read"
    /\ CanRun(h)
    /\ hpc' = [hpc EXCEPT ![h] = "called"]
    /\ running' = h
    /\ UNCHANGED <<pdf_ocr, constructed, handler, ocr>>
    /\ UNCHANGED ocrRest

\* line 53: if _pdf_ocr is None
GetPdfOcrTest(h) ==
    /\ hpc[h] = "called"
    /\ CanRun(h)
    /\ hpc' = [hpc EXCEPT ![h] = IF pdf_ocr = NoEngine THEN "construct"
                                 ELSE "return"]
    /\ UNCHANGED <<pdf_ocr, constructed, handler, ocr, running>>
    /\ UNCHANGED ocrRest

\* lines 54-61: PaddleOCR(...) builds an instance and _pdf_ocr is bound to
\* it, or PaddleOCR(...) raises and the handler goes to its except clause
GetPdfOcrConstruct(h) ==
    /\ hpc[h] = "construct"
    /\ CanRun(h)
    /\ \E built \in BOOLEAN :
         IF built
         THEN /\ constructed' = constructed + 1
              /\ pdf_ocr' = constructed + 1
              /\ hpc' = [hpc EXCEPT ![h] = "return"]
         ELSE /\ hpc' = [hpc EXCEPT ![h] = "except"]
              /\ UNCHANGED <<pdf_ocr, constructed>>
    /\ UNCHANGED <<handler, ocr, running>>
    /\ UNCHANGED ocrRest

\* line 62, and the assignment ocr = get_pdf_ocr() of lines 468 and 610
GetPdfOcrReturn(h) ==
    /\ hpc[h] = "return"
    /\ CanRun(h)
    /\ ocr' = [ocr EXCEPT ![h] = pdf_ocr]
    /\ hpc' = [hpc EXCEPT ![h] = "predict"]
    /\ UNCHANGED <<pdf_ocr, constructed, handler, running>>
    /\ UNCHANGED ocrRest

\* lines 471-507 and 613-649: the rest of the handler, which holds no await
HandlerEnd(h) ==
    /\ hpc[h] \in {"predict", "except"}
    /\ CanRun(h)
    /\ hpc' = [hpc EXCEPT ![h] = "done"]
    /\ running' = IF running = h THEN 0 ELSE running
    /\ UNCHANGED <<pdf_ocr, constructed, handler, ocr>>
    /\ UNCHANGED ocrRest

OcrStarts == \E h \in Handlers : HandlerStart(h)
OcrResumes == \E h \in Handlers : HandlerResume(h)
OcrTests == \E h \in Handlers : GetPdfOcrTest(h)
OcrConstructs == \E h \in Handlers : GetPdfOcrConstruct(h)
OcrReturns == \E h \in Handlers : GetPdfOcrReturn(h)
OcrEnds == \E h \in Handlers : HandlerEnd(h)

OcrNext ==
    \/ OcrStarts
    \/ OcrResumes
    \/ OcrTests
    \/ OcrConstructs
    \/ OcrReturns
    \/ OcrEnds

----------------------------------------------------------------------------
(* Concurrent calls of reconstruct_table (routers/pdf_ocr.py, lines        *)
(* 139-286), one per page.  texts and boxes are the caller's lists, passed *)
(* by reference; items, rows, regular_rows and the rest are locals of the  *)
(* call's own frame; the function names no global.                          *)

\* Bound: the number of calls in progress at once.
MaxCalls == 2

\* the pages the calls are made on; DescPage supplies its pairs from the
\* last row to the first and from right to left
DescPage ==
    FamilyInput([y_threshold |-> DefaultYThreshold, min_cols |-> 2,
                 layout |-> "desc", bad |-> "none", dT |-> 0],
                <<3, 3, 3, 1, 1, 1>>)

ParInputs ==
    {ExampleVoting, ExampleDocstring, ExampleTupleBoxes, ExampleShortBox,
     DescPage}

\* lines 139 and 185: the frame of a call on the input inp
NewFrame(inp) ==
    [texts |-> inp.texts, boxes |-> inp.boxes,
     y_threshold |-> inp.y_threshold, min_cols |-> inp.min_cols,
     called_with |-> inp,
     gpc |-> "validate", items |-> <<>>, rows |-> <<>>,
     regular_rows |-> <<>>, most_common_cols |-> 0,
     table_result |-> Pending]

FrameReturn(f, r) == [f EXCEPT !.gpc = "done", !.table_result = r]

\* lines 185-190
FrameValidate(f) ==
    IF BasicValidationFails(f.texts, f.boxes) THEN FrameReturn(f, NoTable)
    ELSE [f EXCEPT !.gpc = "build"]

\* lines 193-208
FrameBuildItems(f) ==
    LET its == BuildItems(f.texts, f.boxes)
        g == [f EXCEPT !.items = its]
    IN  IF Len(its) < MinTextBoxes THEN FrameReturn(g, NoTable)
        ELSE [g EXCEPT !.gpc = "cluster"]

\* line 212: items.sort sorts the list the call built, in place
SortItemsAlt(f) ==
    LET sorted == StableSort(f.items, "y_center2")
    IN  [f EXCEPT !.items = sorted,
                  !.texts = [j \in DOMAIN sorted |-> sorted[j].text]]

SortItems(f) == [f EXCEPT !.items = StableSort(f.items, "y_center2")]

\* lines 212-235
FrameClusterRows(f) ==
    LET g == SortItems(f)
        rs == ClusterRows(g.items, g.y_threshold)
        h == [g EXCEPT !.rows = rs]
    IN  IF Len(rs) < 2 THEN FrameReturn(h, NoTable)
        ELSE [h EXCEPT !.gpc = "vote"]

\* lines 238-260
FrameVoteColumns(f) ==
    LET valid_col_counts == ValidColCounts(f.rows, f.min_cols)
    IN  IF valid_col_counts = <<>> THEN FrameReturn(f, NoTable)
        ELSE LET mcc == MostCommon(valid_col_counts)
                 rrs == RegularRows(f.rows, mcc)
                 g == [f EXCEPT !.most_common_cols = mcc,
                                !.regular_rows = rrs]
             IN  IF Len(rrs) < 2 THEN FrameReturn(g, NoTable)
                 ELSE [g EXCEPT !.gpc = "extract"]

\* lines 262-286
FrameExtract(f) ==
    LET headers == HeadersOf(f.regular_rows)
        data_rows == DataRowsOf(f.regular_rows)
    IN  IF Len(data_rows) < 1 THEN FrameReturn(f, NoTable)
        ELSE FrameReturn(f, TableDict(headers, data_rows))

ParIdle == frames = <<>>

ParInit ==
    \E n \in 1..MaxCalls : \E inp \in [1..n -> ParInputs] :
        frames = [c \in 1..n |-> NewFrame(inp[c])]

\* the call c is at the step named at and takes it
ParStep(c, at, next) ==
    /\ frames[c].gpc = at
    /\ frames' = [frames EXCEPT ![c] = next]
    /\ UNCHANGED parRest

ParValidate ==
    \E c \in DOMAIN frames : ParStep(c, "validate", FrameValidate(frames[c]))

ParBuildItems ==
    \E c \in DOMAIN frames : ParStep(c, "build", FrameBuildItems(frames[c]))

ParClusterRows ==
    \E c \in DOMAIN frames : ParStep(c, "cluster", FrameClusterRows(frames[c]))

ParVoteColumns ==
    \E c \in DOMAIN frames : ParStep(c, "vote", FrameVoteColumns(frames[c]))

ParExtract ==
    \E c \in DOMAIN frames : ParStep(c, "extract", FrameExtract(frames[c]))

ParNext ==
    \/ ParValidate
    \/ ParBuildItems
    \/ ParClusterRows
    \/ ParVoteColumns
    \/ ParExtract

----------------------------------------------------------------------------
(* reconstruct_table (routers/pdf_ocr.py, lines 139-286) called on the     *)
(* pairs of one input in another order                                     *)

\* the same (text, box) pairs, supplied in the order p
Reordered(inp, p) ==
    [texts |-> [i \in DOMAIN inp.texts |-> inp.texts[p[i]]],
     boxes |-> [i \in DOMAIN inp.boxes |-> inp.boxes[p[i]]],
     y_threshold |-> inp.y_threshold, min_cols |-> inp.min_cols]

\* the y levels of the pairs: pair i is on level pat[i] of YLevels, the
\* pattern repeated
LevelPatterns ==
    {<<1>>, <<1, 3>>, <<1, 2, 3>>, <<1, 3, 4>>, <<1, 2, 3, 4>>}

PatternLevels(pat, n) == [i \in 1..n |-> pat[((i - 1) % Len(pat)) + 1]]

PermConfigs ==
    { [y_threshold |-> DefaultYThreshold, min_cols |-> DefaultMinCols,
       layout |-> "grid", bad |-> "none", dT |-> 0],
      [y_threshold |-> DefaultYThreshold, min_cols |-> 2,
       layout |-> "desc", bad |-> "none", dT |-> 0],
      [y_threshold |-> 10, min_cols |-> 1,
       layout |-> "desc", bad |-> "none", dT |-> 0],
      [y_threshold |-> 10, min_cols |-> 1,
       layout |-> "desc", bad |-> "short", dT |-> 0],
      \* every box at the same x: the rows hold equal x_center
      [y_threshold |-> DefaultYThreshold, min_cols |-> DefaultMinCols,
       layout |-> "column", bad |-> "none", dT |-> 0] }

\* inputs of MaxItems - 1 and MaxItems pairs
PermInputs ==
    {FamilyInput(cfg, PatternLevels(pat, n)) :
        cfg \in PermConfigs, pat \in LevelPatterns,
        n \in {MaxItems - 1, MaxItems}}

PermIdle ==
    /\ base = [texts |-> <<>>, boxes |-> <<>>,
               y_threshold |-> DefaultYThreshold, min_cols |-> DefaultMinCols]
    /\ sigma = <<>> /\ cpc = "idle" /\ reordered_result = Pending

PermInit ==
    \E inp \in PermInputs : \E p \in Permutations(DOMAIN inp.texts) :
        /\ base = inp
        /\ sigma = p
        /\ cpc = "call"
        /\ reordered_result = Pending

\* reconstruct_table(texts, boxes, y_threshold, min_cols) on the re-ordered
\* pairs
PermCall ==
    /\ cpc = "call"
    /\ LET inp == Reordered(base, sigma)
       IN  reordered_result' =
               ReconstructTable(inp.texts, inp.boxes, inp.y_threshold,
                                inp.min_cols)
    /\ cpc' = "done"
    /\ UNCHANGED <<base, sigma>>
    /\ UNCHANGED permRest

PermNext ==
    \/ PermCall

----------------------------------------------------------------------------
(* Specifications: one function or endpoint is called, the others are not *)

GtrStart == GtrInit /\ MfteIdle /\ PdfIdle /\ VlIdle /\ OcrIdle /\ ParIdle
    /\ PermIdle

SpecGTR == GtrStart /\ [][GtrNext]_vars

MfteStart == MfteInit /\ GtrIdle /\ PdfIdle /\ VlIdle /\ OcrIdle /\ ParIdle
    /\ PermIdle

SpecMFTE == MfteStart /\ [][MfteNext]_vars

PdfStart == PdfInit /\ GtrIdle /\ MfteIdle /\ VlIdle /\ OcrIdle /\ ParIdle
    /\ PermIdle

SpecPDF == PdfStart /\ [][PdfNext]_vars

VlStart == VlInit /\ GtrIdle /\ MfteIdle /\ PdfIdle /\ OcrIdle /\ ParIdle
    /\ PermIdle

SpecVL == VlStart /\ [][VlNext]_vars

OcrStart == OcrInit /\ GtrIdle /\ MfteIdle /\ PdfIdle /\ VlIdle /\ ParIdle
    /\ PermIdle

SpecOCR == OcrStart /\ [][OcrNext]_vars

ParStart ==
    ParInit /\ GtrIdle /\ MfteIdle /\ PdfIdle /\ VlIdle /\ OcrIdle
    /\ PermIdle

SpecPAR == ParStart /\ [][ParNext]_vars

PermStart ==
    PermInit /\ GtrIdle /\ MfteIdle /\ PdfIdle /\ VlIdle /\ OcrIdle
    /\ ParIdle

SpecPERM == PermStart /\ [][PermNext]_vars

----------------------------------------------------------------------------
(* Properties of reconstruct_table (checked under SpecGTR) *)

GtrDone == gpc = "done"

GtrHasTable == GtrDone /\ table_result.has_table

\* C1: whenever reconstruct_table returns has_table = true, every row of
\* rows has exactly total_cols elements, total_cols = len(headers) > 0 and
\* total_rows = len(rows) >= 1.
C1_Rectangular ==
    GtrHasTable =>
        /\ \A r \in DOMAIN table_result.rows :
              Len(table_result.rows[r]) = table_result.total_cols
        /\ table_result.total_cols = Len(table_result.headers)
        /\ Len(table_result.headers) > 0
        /\ table_result.total_rows = Len(table_result.rows)
        /\ Len(table_result.rows) >= 1

C1_Witness ==
    /\ GtrHasTable
    /\ table_result.total_rows >= 2
    /\ table_result.total_cols # table_result.total_rows

\* C2: when texts is empty, boxes is empty, their lengths differ or there
\* are fewer than 6 texts, reconstruct_table returns has_table = false with
\* headers = [] and rows = [].
C2_Floor ==
    (/\ GtrDone
     /\ \/ Len(texts) = 0
        \/ Len(boxes) = 0
        \/ Len(texts) # Len(boxes)
        \/ Len(texts) < 6)
        => /\ table_result.has_table = FALSE
           /\ table_result.headers = <<>>
           /\ table_result.rows = <<>>

\* Seven texts over six well-formed boxes in two rows of three: only the
\* length comparison stands between this input and a table.
C2_Witness ==
    /\ GtrDone
    /\ Len(texts) = 7 /\ Len(boxes) = 6
    /\ \A i \in 1..3 : boxes[i].c[2] = YLevels[1]
    /\ \A i \in 4..6 : boxes[i].c[2] = YLevels[3]
    /\ table_result = NoTable

\* The state holds the clustered rows once the walk has run.
Clustered == gpc \in {"vote", "extract", "done"} /\ rows # <<>>

PosOf(it) == CHOOSE k \in DOMAIN items : items[k] = it

\* The first member of a row in walk order (the walk goes through the
\* y-sorted items, the row itself is kept sorted by x_center).
FirstMember(row) ==
    CHOOSE m \in Range(row) : \A o \in Range(row) : PosOf(m) <= PosOf(o)

\* C3: walking the items in ascending y_center order, an item joins the
\* current row iff its y_center is strictly within y_threshold of the y_center
\* of the row's first member, and starts a new row otherwise.  So the rows
\* are consecutive runs of the sorted items, every member of a row is
\* strictly within y_threshold of the row's first member, and the first
\* member of each later row is at least y_threshold away from the first
\* member of the row before it.
C3_FirstMemberAnchor ==
    Clustered =>
        /\ UNION {Range(rows[r]) : r \in DOMAIN rows} = Range(items)
        /\ \A r \in DOMAIN rows : rows[r] # <<>>
        /\ \A r, s \in DOMAIN rows : \A a \in Range(rows[r]), b \in Range(rows[s]) :
              r < s => PosOf(a) < PosOf(b)
        /\ \A r \in DOMAIN rows : \A m \in Range(rows[r]) :
              Abs(m.y_center2 - FirstMember(rows[r]).y_center2) < 2 * y_threshold
        /\ \A r \in DOMAIN rows :
              r > 1 =>
                Abs(FirstMember(rows[r]).y_center2
                      - FirstMember(rows[r - 1]).y_center2) >= 2 * y_threshold

\* y centres 10, 20 and 45 with y_threshold = 30 (the documented 0, 10, 35
\* moved down by 10): 10 and 20 share a row, 45 opens the next one although
\* it is within 30 of 20.
C3_Witness ==
    /\ Clustered
    /\ y_threshold = 30
    /\ Len(rows) = 2
    /\ {m.y_center2 : m \in Range(rows[1])} = {20, 40}
    /\ FirstMember(rows[2]).y_center2 = 90

\* The state holds the vote once most_common_cols is set.
Voted == gpc \in {"extract", "done"} /\ most_common_cols # 0

CountOf(r) == Len(rows[r])

ValidRowIdx == {r \in DOMAIN rows : CountOf(r) >= min_cols}

Votes(c) == Cardinality({r \in ValidRowIdx : CountOf(r) = c})

FirstRowWith(c) == CHOOSE r \in ValidRowIdx :
                      CountOf(r) = c /\ \A q \in ValidRowIdx : CountOf(q) = c => r <= q

\* C4: most_common_cols is the most frequent item count among the rows with
\* at least min_cols items, a tie going to the count that occurs first from
\* the top; exactly the rows with most_common_cols items are kept, in order;
\* fewer than 2 of them give "no table"; a returned table has
\* most_common_cols columns.  Rows of 4, 4, 3, 4 items with min_cols = 3 give
\* total_cols = 4 without the 3-item row.
C4_ColumnVoting ==
    /\ Voted =>
        /\ \E r \in ValidRowIdx : CountOf(r) = most_common_cols
        /\ \A r \in ValidRowIdx : Votes(CountOf(r)) <= Votes(most_common_cols)
        /\ \A r \in ValidRowIdx :
              (Votes(CountOf(r)) = Votes(most_common_cols)
                  /\ CountOf(r) # most_common_cols)
                => FirstRowWith(most_common_cols) < r
        /\ Len(regular_rows) = Cardinality({r \in DOMAIN rows :
                                              CountOf(r) = most_common_cols})
        /\ \A k \in DOMAIN regular_rows :
              /\ Len(regular_rows[k]) = most_common_cols
              /\ \E r \in DOMAIN rows : rows[r] = regular_rows[k]
        /\ \A k, l \in DOMAIN regular_rows :
              k < l => PosOf(regular_rows[k][1]) < PosOf(regular_rows[l][1])
        /\ (GtrDone /\ Len(regular_rows) < 2) => table_result = NoTable
        /\ GtrHasTable => table_result.total_cols = most_common_cols
    /\ (GtrDone /\ texts = ExampleVoting.texts /\ boxes = ExampleVoting.boxes)
          => /\ table_result.has_table
             /\ table_result.total_cols = 4
             /\ table_result.total_rows = 2
             /\ Len(rows) = 4 /\ Len(regular_rows) = 3

\* A tie between two counts, won by the one met first, with a table
\* returned and the losing rows left out.
C4_Witness ==
    /\ GtrHasTable
    /\ \E r \in ValidRowIdx :
          /\ CountOf(r) > most_common_cols
          /\ Votes(CountOf(r)) = Votes(most_common_cols)

NonDecreasingX(row) ==
    \A j, k \in DOMAIN row : j < k => row[j].x_center2 <= row[k].x_center2

\* C5: headers are the texts of the topmost regular row from left to right,
\* rows are the texts of the remaining regular rows from top to bottom, each
\* from left to right, and total_rows is the number of regular rows minus
\* one.  The 2 x 3 grid Name/Age/City over John/25/NYC gives headers
\* [Name, Age, City], rows [[John, 25, NYC]], total_rows 1, total_cols 3.
C5_HeaderAndRows ==
    /\ GtrHasTable =>
        /\ \A k \in DOMAIN regular_rows : NonDecreasingX(regular_rows[k])
        /\ \A k, l \in DOMAIN regular_rows :
              \A a \in Range(regular_rows[k]), b \in Range(regular_rows[l]) :
                  k < l => a.y_center2 <= b.y_center2
        /\ table_result.headers =
              [j \in DOMAIN regular_rows[1] |-> regular_rows[1][j].text]
        /\ table_result.total_rows = Len(regular_rows) - 1
        /\ Len(table_result.rows) = Len(regular_rows) - 1
        /\ \A r \in DOMAIN table_result.rows :
              table_result.rows[r] =
                  [j \in DOMAIN regular_rows[r + 1] |-> regular_rows[r + 1][j].text]
    /\ (/\ GtrDone
        /\ texts = <<"Name", "Age", "City", "John", "25", "NYC">>
        /\ boxes = <<ListBox(10, 0, 50, 20), ListBox(60, 0, 100, 20),
                     ListBox(110, 0, 150, 20), ListBox(10, 35, 50, 55),
                     ListBox(60, 35, 100, 55), ListBox(110, 35, 150, 55)>>
        /\ y_threshold = 30 /\ min_cols = 3)
          => table_result =
                [has_table |-> TRUE,
                 headers |-> <<"Name", "Age", "City">>,
                 rows |-> << <<"John", "25", "NYC">> >>,
                 total_rows |-> 1, total_cols |-> 3]

\* A table of at least two data rows whose boxes were supplied right to
\* left, so that the left-to-right order is not the order of the input.
C5_Witness ==
    /\ GtrHasTable
    /\ table_result.total_rows >= 2
    /\ \E k \in DOMAIN regular_rows : \E i, j \in DOMAIN regular_rows[k] :
          i < j /\ regular_rows[k][i].index > regular_rows[k][j].index


----------------------------------------------------------------------------
(* Claims about parse_table_response and the parsers (SpecMFTE) *)

MfteDone == mpc = "done"

PtrDone == MfteDone /\ call = "parse_table_response"

PastGuard == exit_at \notin {"none", "empty", "marker"}

NonEmptyList(v, key) ==
    /\ HasKey(v, key)
    /\ Lookup(v, key).k = "list"
    /\ Lookup(v, key).items # <<>>

TableObject(v) == v.k = "dict" /\ HasKey(v, "headers") /\ HasKey(v, "rows")

\* at least one header and at least one data row, for each shape of
\* returned value that carries a table
HasHeaderAndRow(v) ==
    CASE v.shape = "table" -> Len(v.headers) > 0 /\ Len(v.rows) >= 1
      [] v.shape = "json"  -> NonEmptyList(v.val, "headers")
                              /\ NonEmptyList(v.val, "rows")
      [] v.shape = "data"  -> \A i \in DOMAIN v.val.items :
                                  /\ NonEmptyList(v.val.items[i], "headers")
                                  /\ NonEmptyList(v.val.items[i], "rows")
      [] OTHER             -> TRUE

\* C6: every table that a function emits (reconstruct_table,
\* parse_html_to_json, parse_html_table, parse_markdown_table,
\* parse_table_response) has a non-empty header list and at least one data
\* row; an input that would give no header or no data row gives "no table".
C6_NoDegenerateTable ==
    /\ MfteDone => HasHeaderAndRow(parsed)
    /\ (GtrDone /\ GtrHasTable) =>
           Len(table_result.headers) > 0 /\ Len(table_result.rows) >= 1

\* the interior of the first fenced block, by position: the first opening
\* that has a closing after it, up to the first such closing
BlockStarts(s) ==
    {p \in DOMAIN s :
        OpenerLen(s, p) > 0 /\ ClosersFrom(s, p + OpenerLen(s, p)) # {}}

FirstBlockInterior(s) ==
    LET p == MinOf(BlockStarts(s))
        c == p + OpenerLen(s, p)
    IN  SubSeq(s, c, MinOf(ClosersFrom(s, c)) - 1)

\* C7: when the response holds a fenced code block and the call gets past
\* the guard of lines 210-215, the value returned is the JSON, HTML,
\* Markdown chain applied to the stripped interior of the first block alone:
\* later blocks and text outside the block do not reach the chain.
C7_FirstFencedBlock ==
    (PtrDone /\ PastGuard /\ BlockStarts(Strip(response)) # {}) =>
        /\ work = Strip(FirstBlockInterior(Strip(response)))
        /\ parsed = DispatchChain(Strip(FirstBlockInterior(Strip(response))))

\* two different fenced blocks and a table tag outside them: the first
\* block's object is returned
C7_Witness ==
    /\ PtrDone
    /\ Len(FencedBlocks(Strip(response))) = 2
    /\ FencedBlocks(Strip(response))[1] # FencedBlocks(Strip(response))[2]
    /\ response[1] \in TableOpenTags
    /\ parsed = JsonDict(JDict(<<JEntry("note", JStr("\"A\""))>>))

\* C8: a response that is a JSON array of table objects (each with headers
\* and rows) is returned as a wrapper holding the whole array under "data";
\* a response that is a JSON object is returned unchanged.
C8_ArrayWrapped ==
    PtrDone =>
        LET r == JsonLoads(Strip(response))
        IN  /\ ( /\ r.ok
                 /\ r.val.k = "list"
                 /\ r.val.items # <<>>
                 /\ \A i \in DOMAIN r.val.items : TableObject(r.val.items[i]) )
                => parsed = DataWrapper(r.val)
            /\ (r.ok /\ r.val.k = "dict") => parsed = JsonDict(r.val)

\* C9: past the guard, the branches are tried in the order JSON, HTML,
\* Markdown on the working text: a JSON candidate that parses is returned
\* whatever else the text holds; one that does not parse (or no candidate)
\* leaves the decision to the HTML branch when a table tag is present
\* (either case), else to the Markdown branch when a pipe and "---" are
\* present, else the value is None.
C9_BranchOrder ==
    (PtrDone /\ PastGuard) =>
        LET cand == JsonCandidate(work)
            jsonOk == cand # <<>> /\ JsonLoads(cand).ok
            tableTag == \E i \in DOMAIN work : work[i] \in {"<table>", "<TABLE>"}
            pipeDash == (\E i \in DOMAIN work : work[i] = "|")
                        /\ (\E i \in DOMAIN work : work[i] = "---")
        IN  /\ jsonOk =>
                /\ exit_at = "json"
                /\ parsed.shape =
                       (IF JsonLoads(cand).val.k = "dict" THEN "json" ELSE "data")
                /\ parsed.val = JsonLoads(cand).val
            /\ (~jsonOk /\ tableTag) =>
                /\ exit_at = "html"
                /\ parsed = ParseHtmlTable(HtmlBlock(work))
            /\ (~jsonOk /\ ~tableTag /\ pipeDash) =>
                /\ exit_at = "markdown"
                /\ parsed = ParseMarkdownTable(work)
            /\ (~jsonOk /\ ~tableTag /\ ~pipeDash) =>
                /\ exit_at = "end"
                /\ parsed = None

\* a JSON candidate that does not parse, then the HTML branch's table
C9_Witness ==
    /\ PtrDone
    /\ JsonCandidate(work) # <<>>
    /\ ~JsonLoads(JsonCandidate(work)).ok
    /\ exit_at = "html"
    /\ parsed = TableOut(<<"A", "B">>, <<<<"1", "2">>>>)

\* C10: an empty or whitespace-only response gives None; a response with
\* the no-table marker and neither a pipe nor a table tag (either case)
\* gives None, parseable JSON in it notwithstanding; a response with the
\* marker and a pipe or a table tag goes through fence extraction and the
\* JSON, HTML, Markdown chain.
C10_Guard ==
    PtrDone =>
        LET marker == \E i \in DOMAIN response : response[i] = MARK
            pipe == \E i \in DOMAIN response : response[i] = "|"
            tableTag == \E i \in DOMAIN response :
                            response[i] \in {"<table>", "<TABLE>"}
        IN  /\ (\A i \in DOMAIN response : response[i] \in {SP, NL}) =>
                parsed = None /\ exit_at = "empty"
            /\ (marker /\ ~pipe /\ ~tableTag) =>
                parsed = None /\ exit_at = "marker"
            /\ (marker /\ (pipe \/ tableTag)) =>
                /\ PastGuard
                /\ parsed = DispatchChain(AfterFence(Strip(response)))

\* the marker next to an object that json.loads accepts
C10_Witness ==
    /\ PtrDone
    /\ \E i \in DOMAIN response : response[i] = MARK
    /\ JsonBranch(Strip(response)) # None
    /\ exit_at = "marker"
    /\ parsed = None

----------------------------------------------------------------------------
(* Claims about the two HTML parsers called on their own (SpecMFTE) *)

HtmlCallDone ==
    MfteDone /\ call \in {"parse_html_table", "parse_html_to_json"}

HasCells(tr) == tr.th # <<>> \/ tr.td # <<>>

\* the cells a row contributes: its <th> cells when it has any, else its
\* <td> cells
CellsOf(tr) == IF tr.th # <<>> THEN tr.th ELSE tr.td

\* the rows with cells, in document order, without row f
CellRowsBut(trs, f) ==
    LET idx == SelectSeq([i \in 1..Len(trs) |-> i],
                         LAMBDA i : i # f /\ HasCells(trs[i]))
    IN  [j \in DOMAIN idx |-> CellsOf(trs[idx[j]])]

\* C11: in both HTML parsers, going through the <tr> rows in document
\* order, the first row with <th> cells becomes headers and every later
\* row with <th> cells is appended to rows as a data row: it neither
\* replaces the headers nor is lost.
C11_LaterThRowsKept ==
    HtmlCallDone =>
        LET trs == HtmlRows(response)
            thIdx == {i \in DOMAIN trs : trs[i].th # <<>>}
        IN  thIdx # {} =>
                /\ parsed.shape = "table"
                /\ parsed.headers = trs[MinOf(thIdx)].th
                /\ parsed.rows = CellRowsBut(trs, MinOf(thIdx))

\* C12: for HTML whose rows hold <td> cells only (no <th> anywhere) and at
\* least one such row, both parsers take the first data row out of rows and
\* use it as headers, so total_rows is the number of <td> rows minus one;
\* the rows (Name, Age), (John, 25) give headers [Name, Age] and rows
\* [[John, 25]].
C12_TdOnlyPromoted ==
    HtmlCallDone =>
        LET trs == HtmlRows(response)
            tdRows == SelectSeq(trs, LAMBDA tr : tr.td # <<>>)
        IN  /\ ((\A i \in DOMAIN trs : trs[i].th = <<>>) /\ tdRows # <<>>) =>
                /\ parsed.shape = "table"
                /\ parsed.headers = tdRows[1].td
                /\ parsed.rows = [j \in 1..(Len(tdRows) - 1) |-> tdRows[j + 1].td]
                /\ parsed.total_rows = Len(tdRows) - 1
            /\ response = SegRowTdNames \o <<NL>> \o SegRowTdJohn =>
                /\ parsed.headers = <<"Name", "Age">>
                /\ parsed.rows = <<<<"John", "25">>>>

\* the example, parsed by parse_html_to_json
C12_Witness ==
    /\ MfteDone /\ call = "parse_html_to_json"
    /\ response = SegRowTdNames \o <<NL>> \o SegRowTdJohn
    /\ parsed = TableOut(<<"Name", "Age">>, <<<<"John", "25">>>>)

\* C13: the HTML parser, as parse_html_table reached through the HTML
\* branch of parse_table_response and as parse_html_to_json, returns None
\* exactly when the content has no <tr> row or no row gives a cell, and
\* never returns a table with empty headers and empty rows.
C13_HtmlSentinel ==
    LET viaBranch == PtrDone /\ exit_at = "html"
        direct == MfteDone /\ call = "parse_html_to_json"
        trs == HtmlRows(IF viaBranch THEN HtmlBlock(work) ELSE response)
        nothing == \A i \in DOMAIN trs : ~HasCells(trs[i])
    IN  (viaBranch \/ direct) =>
            /\ (parsed = None) <=> nothing
            /\ ~(/\ parsed.shape = "table"
                 /\ parsed.headers = <<>>
                 /\ parsed.rows = <<>>)

----------------------------------------------------------------------------
(* Claims about parse_markdown_table called on its own (SpecMFTE) *)

MdCallDone == MfteDone /\ call = "parse_markdown_table"

PipeCount(l) == Cardinality({i \in DOMAIN l : l[i] = "|"})

----------------------------------------------------------------------------
(* Claims about the /pdf endpoints and extract_pdf_ocr_data (SpecPDF) *)

PdfDone == ppc = "done"

\* what reconstruct_table reports for page k of the document
TableDataOf(k) ==
    LET tb == ExtractTextsBoxes(request.pages[k])
    IN  ReconstructCall(tb.value.texts, tb.value.boxes).value

PagesWithTable ==
    SelectSeq([k \in 1..Len(request.pages) |-> k],
              LAMBDA k : TableDataOf(k).has_table)

\* C15: when a /pdf endpoint answers 200 for a document of n pages, data
\* holds exactly one record for each page on which reconstruct_table reports
\* has_table, with that page's 1-based number and that page's headers and
\* rows, in ascending page order; a page without a table gives no record;
\* the table count of the message is the number of records.
C15_OneRecordPerTablePage ==
    (PdfDone /\ http.status = 200) =>
        /\ Len(http.data) = Len(PagesWithTable)
        /\ \A j \in DOMAIN http.data :
            /\ http.data[j].page = PagesWithTable[j]
            /\ http.data[j].table.headers = TableDataOf(PagesWithTable[j]).headers
            /\ http.data[j].table.rows = TableDataOf(PagesWithTable[j]).rows
        /\ \A i, j \in DOMAIN http.data : i < j => http.data[i].page < http.data[j].page
        /\ http.total_tables = Len(http.data)

\* two pages, the first without a table: one record, of page 2
C15_Witness ==
    /\ PdfDone /\ http.status = 200
    /\ Len(request.pages) = 2
    /\ Len(http.data) = 1
    /\ http.data[1].page = 2
    /\ http.data[1].table.headers = <<"Name", "Age", "City">>
    /\ http.data[1].table.rows = <<<<"John", "25", "NYC">>>>

----------------------------------------------------------------------------
(* Properties of extract_tables_from_pdf (checked under SpecVL) *)

\* a page has been handled and its item went through parse_table_response
VlParsedPage == vpc \in {"pages", "done"} /\ vl_table_data.from = "response"

\* the elements of a {data: [...]} value that are dicts with a headers key
TablesInData(td) ==
    SelectSeq(DataElements(td),
              LAMBDA t : t.k = "dict" /\ HasKey(t, "headers"))

\* the number of records the three shapes call for: one for a dict with
\* headers, one per element with headers for a dict with data, none for None
RecordsCalledFor(td) ==
    IF ~TableDataTruthy(td) THEN 0
    ELSE IF HasHeadersKey(td) THEN 1
    ELSE IF HasDataKey(td) THEN Len(TablesInData(td))
    ELSE 0

\* C16: whatever the shape of the engine's item (dict or plain string), the
\* value parse_table_response returned is turned into records the same way:
\* one record for {headers, rows}, one record per element with headers for
\* {data: [...]}, nothing for None; no {data: [...]} table is dropped.
C16_ShapesHandledAlike ==
    VlParsedPage => Len(page_tables) = RecordsCalledFor(vl_table_data.value)

\* a {data: [...]} value holding a table was returned for a page
C16_DataShapeMet ==
    /\ VlParsedPage
    /\ ~HasHeadersKey(vl_table_data.value)
    /\ HasDataKey(vl_table_data.value)
    /\ Len(TablesInData(vl_table_data.value)) > 0


----------------------------------------------------------------------------
(* Robustness of extract_pdf_ocr_data (checked under SpecPDF) *)

\* C17: whatever the OCR result holds (rec_boxes that is no sequence while
\* rec_texts is a non-empty list, a box that is no list or is too short, a
\* result of an unrecognized shape), extract_pdf_ocr_data and the call of
\* reconstruct_table inside it end by returning a record or None, never by
\* raising an exception.
C17_NeverRaises == page_outcome.kind = "return"


----------------------------------------------------------------------------
(* Box validation of reconstruct_table (checked under SpecGTR) *)

\* the loop of lines 193-205 has run
ItemsBuilt ==
    /\ gpc \notin {"idle", "validate", "build"}
    /\ ~BasicValidationFails(texts, boxes)

\* the pairs whose box is a sequence, list or tuple, of at least 4 elements
PairsWithValidBox == {i \in DOMAIN texts : Len(boxes[i].c) >= 4}

\* C18: every (text, box) pair whose box has 4 elements, whether the box is
\* a list or a tuple, produces an item and only pairs with a malformed box
\* are dropped; the 6-item floor is applied again to the items that are kept.
C18_ValidPairsKept ==
    ItemsBuilt =>
        /\ Len(items) = Cardinality(PairsWithValidBox)
        /\ Len(items) < MinTextBoxes => GtrDone /\ table_result = NoTable

\* a pair with a short box is dropped and the six others give the table
C18_ShortBoxDropped ==
    /\ GtrDone
    /\ Len(texts) = 7 /\ Len(items) = 6
    /\ table_result # Pending /\ table_result.has_table


\* the call of the docstring example has returned
DocstringCallDone ==
    /\ GtrDone
    /\ texts = ExampleDocstring.texts /\ boxes = ExampleDocstring.boxes
    /\ y_threshold = DefaultYThreshold /\ min_cols = DefaultMinCols

\* C19: with the default parameters, the docstring example (texts Name, Age,
\* John, 25 with four boxes in a 2 x 2 grid) returns has_table = True,
\* headers [Name, Age] and rows [[John, 25]].
C19_DocstringExample ==
    DocstringCallDone =>
        /\ table_result.has_table
        /\ table_result.headers = <<"Name", "Age">>
        /\ table_result.rows = << <<"John", "25">> >>


----------------------------------------------------------------------------
(* The page records of extract_pdf_ocr_data (checked under SpecPDF) *)

\* a call of extract_pdf_ocr_data returned a page record
PageRecordReturned ==
    /\ ppc \notin {"idle", "accept"}
    /\ page_outcome.kind = "return"
    /\ page_outcome.value # NoPage

\* C20: every page record extract_pdf_ocr_data returns has a table with the
\* four fields headers, rows, total_rows and total_cols, where total_rows is
\* len(rows) and total_cols is len(headers).
C20_FourTableFields ==
    PageRecordReturned =>
        LET t == page_outcome.value.table
        IN  /\ {"headers", "rows", "total_rows", "total_cols"} \subseteq DOMAIN t
            /\ t.total_rows = Len(t.rows)
            /\ t.total_cols = Len(t.headers)

\* the two fields the record does carry
C20_HeadersAndRowsOnly ==
    PageRecordReturned => DOMAIN page_outcome.value.table = {"headers", "rows"}


----------------------------------------------------------------------------
(* Temporary files of the /pdf endpoints (checked under SpecPDF) *)

\* C21: on every outcome of a request to predict_pdf_by_url or
\* predict_pdf_by_file (success, rasterization failing after some pages were
\* written, engine failure on a page), once the request has completed, the
\* temporary PDF and every temporary page image it created are deleted.
C21_TempFilesDeleted == PdfDone => files = {}

\* the requests that leave nothing behind: all but a rasterization that
\* fails after a page image was written
C21_DeletedUnlessRasterFails ==
    PdfDone /\ ~(request.fail.at = "raster" /\ request.fail.k >= 2)
        => files = {}


----------------------------------------------------------------------------
(* The engine singleton (checked under SpecOCR) *)

\* the handlers whose call of get_pdf_ocr has returned
Returned == {h \in Handlers : hpc[h] \in {"predict", "done"} /\ ocr[h] # NoEngine}

\* no handler has reached get_pdf_ocr yet
NoCallYet == \A h \in Handlers : hpc[h] \in {"off", "request", "await_read", "called"}

\* C22: across any number and interleaving of get_pdf_ocr calls made by the
\* concurrent request handlers, the engine is constructed at most once, on the
\* first call and not at import time, and every call returns that instance.
C22_Singleton ==
    /\ constructed <= 1
    /\ NoCallYet => constructed = 0 /\ pdf_ocr = NoEngine
    /\ \A h \in Returned : ocr[h] = pdf_ocr /\ ocr[h] = 1
    /\ \A h \in Handlers : hpc[h] = "predict" => ocr[h] # NoEngine

\* two handlers of which one awaited have both got the engine
C22_Witness ==
    \E g, h \in Returned :
        /\ g # h
        /\ handler[g] = "predict_pdf_by_file" /\ handler[h] = "predict_pdf_by_url"
        /\ hpc[g] = "done" /\ hpc[h] = "done"
        /\ constructed = 1


----------------------------------------------------------------------------
(* Purity of reconstruct_table (checked under SpecPAR) *)

\* the result of the call on inp when nothing else runs
AloneResult(inp) ==
    ReconstructTable(inp.texts, inp.boxes, inp.y_threshold, inp.min_cols)

\* C23: reconstruct_table leaves texts and boxes unchanged (same elements,
\* same order) and its result is a function of its arguments alone: under
\* any interleaving of concurrent calls on separate pages, each call returns
\* what it returns when run alone.
C23_PureFunction ==
    \A c \in DOMAIN frames :
        /\ frames[c].texts = frames[c].called_with.texts
        /\ frames[c].boxes = frames[c].called_with.boxes
        /\ frames[c].gpc = "done" =>
               frames[c].table_result = AloneResult(frames[c].called_with)

\* two calls are in progress, the first has sorted its items into another
\* order than the one its pairs came in, the second has already returned a
\* table
C23_Witness ==
    /\ Len(frames) = 2
    /\ frames[1].gpc = "vote"
    /\ frames[1].items # BuildItems(frames[1].texts, frames[1].boxes)
    /\ frames[2].gpc = "done" /\ frames[2].table_result.has_table


----------------------------------------------------------------------------
(* Responses of the /pdf endpoints (checked under SpecPDF) *)

\* what extract_pdf_ocr_data does on page k of the request
OutcomeOf(k) == ExtractPdfOcrData(request.pages[k], k)

\* nothing fails on the way and every page's extraction returns
NothingFails ==
    /\ request.fail.at = "none"
    /\ \A k \in DOMAIN request.pages : OutcomeOf(k).kind = "return"

\* no page of the request has a detected table
NoPageHasTable ==
    \A k \in DOMAIN request.pages :
        OutcomeOf(k).kind = "return" /\ OutcomeOf(k).value = NoPage

\* C24: a page without a detected table never produces an error response (a
\* PDF with zero tables yields resultcode 200 and an empty data list); a
\* failed download or a file name not ending in .pdf yields 400 before any
\* temporary file is created or the engine is invoked; any failure during
\* rasterization or engine invocation yields 500.
C24_StatusCodes ==
    /\ request.fail.at = "reject" =>
           /\ files = {} /\ page_idx = 0 /\ ~image_files.bound
           /\ ppc \in {"accept", "done"}
           /\ PdfDone => http = HttpError(400)
    /\ PdfDone /\ request.fail.at \in {"raster", "load", "predict"} =>
           http = HttpError(500)
    /\ PdfDone /\ NothingFails =>
           /\ http.status = 200 /\ http.resultcode = 200
           /\ Len(http.data) =
                  Cardinality({k \in DOMAIN request.pages :
                                   OutcomeOf(k).value # NoPage})
    /\ PdfDone /\ request.fail.at = "none" /\ NoPageHasTable =>
           http.status = 200 /\ http.resultcode = 200 /\ http.data = <<>>

\* a two-page PDF without a table has been answered
C24_Witness ==
    /\ PdfDone
    /\ Len(request.pages) = 2 /\ request.fail.at = "none" /\ NoPageHasTable
    /\ http.status = 200 /\ http.data = <<>>

\* the other answers are reached too: 400 on a rejection, 500 on a failed
\* page
C24_ErrorsReached ==
    /\ PdfDone
    /\ \/ request.fail.at = "reject" /\ http = HttpError(400)
       \/ request.fail.at = "predict" /\ request.fail.k = 2 /\ http = HttpError(500)


----------------------------------------------------------------------------
(* Order of the pairs (checked under SpecPERM) *)

PermDone == cpc = "done"

\* the rows reconstruct_table clusters the pairs of inp into
ClusteredRows(inp) ==
    LET its == BuildItems(inp.texts, inp.boxes)
    IN  IF its = <<>> THEN <<>>
        ELSE ClusterRows(StableSort(its, "y_center2"), inp.y_threshold)

\* the items of each clustered row have pairwise distinct x_center
DistinctXInRows(inp) ==
    LET rs == ClusteredRows(inp)
    IN  \A r \in DOMAIN rs :
            \A i, j \in DOMAIN rs[r] :
                i # j => rs[r][i].x_center2 # rs[r][j].x_center2

\* the result on the pairs in the order they were first given
BaseResult ==
    ReconstructTable(base.texts, base.boxes, base.y_threshold, base.min_cols)

\* C25: for an input whose clustered rows hold pairwise distinct x_center,
\* supplying the (text, box) pairs in another order gives the identical
\* result: same has_table, headers, rows, total_rows and total_cols.
C25_OrderIndependent ==
    PermDone /\ DistinctXInRows(base) => reordered_result = BaseResult

\* Without the condition on x_center the result does depend on the order:
\* this formula is violated by the inputs whose boxes share one x.
C25_AnyInput == PermDone => reordered_result = BaseResult

\* a table was returned for pairs supplied in an order in which no pair is
\* at its first place
C25_Witness ==
    /\ PermDone
    /\ DistinctXInRows(base)
    /\ reordered_result.has_table
    /\ Len(reordered_result.rows) >= 2
    /\ \A i \in DOMAIN sigma : sigma[i] # i

============================================================================
